---- MODULE Spec2Model ----
(***************************************************************************)
(* A model of the automaton engine of whoiscc/auto: the NFA builder,       *)
(* blueprint and walker (src/src/nfa.rs), the DFA builder, blueprint and   *)
(* walker (src/src/dfa.rs), the stepping contract (src/src/auto.rs), the   *)
(* subset construction (src/src/algo.rs) and the regex compiler            *)
(* (src/src/re.rs).                                                        *)
(*                                                                         *)
(* A Rust HashMap is a TLA+ function whose DOMAIN is the key set, a        *)
(* HashSet/BTreeSet is a set, a Vec is a sequence.  A panic is recorded in *)
(* the variable panic and stops the run.                                   *)
(***************************************************************************)
EXTENDS Integers, Sequences, FiniteSets, TLC

\* ------------------------------------------------------------------ bounds
\* number of state identifiers a hand-built automaton may use
NumStates == 3
\* number of builder calls before finalize
MaxCalls == 3
\* length of the symbol sequences fed to the walker of a compiled regex
MaxLen == 3
\* number of nodes of the regex ASTs handed to compile
MaxReSize == 4
\* number of symbols fed to the walker of the DFA of tests::trigger_fallback
MaxWalk == 5
\* number of symbols fed to each of the walkers that share a blueprint
MaxShared == 2

States == 0 .. (NumStates - 1)
\* labels that builders put on plain edges
Labels == {"a", "b"}
\* input symbols: the labels and one symbol no edge carries
Symbols == Labels \cup {"z"}
\* the walker runs use one label, and one symbol that no edge carries
WalkLabels == {"a"}
WalkSymbols == WalkLabels \cup {"z"}

\* labels of the leaves of the enumerated regex ASTs
ReLabels == {"a", "b"}
\* input symbols of the regex runs: the labels of the patterns of the tests of
\* re.rs and algo.rs, and one symbol no pattern names
ReSymbols == {"a", "b", "c", "d", "z"}

VARIABLES
    pc,           \* position of the driver program
    calls,        \* builder calls made so far
    nfa_builder,  \* NFAutoBuilder
    nfa_bp,       \* NFAutoBlueprint
    nfa_auto,     \* NFAuto (walker)
    dfa_builder,  \* DFAutoBuilder
    dfa_bp,       \* DFAutoBlueprint
    dfa_auto,     \* DFAuto (walker)
    det,          \* the locals of determinize: builder, unresolved_state_set_list,
                  \* resolved_state_set_set
    re,           \* the regex AST handed to compile
    input,        \* the symbols consumed so far by the running test
    nfa_call,     \* the test or search call running on nfa_auto
    dfa_call,     \* the test or search call running on dfa_auto
    panic,        \* "none" or the message of the panic that ended the run
    walkers,      \* the walkers created from one blueprint when it backs several
    last          \* the last walker operation: its name, inputs and the walker before it

vars == <<pc, calls, nfa_builder, nfa_bp, nfa_auto, dfa_builder, dfa_bp, dfa_auto,
          det, re, input, nfa_call, dfa_call, panic, walkers, last>>

nfa_vars == <<nfa_builder, nfa_bp, nfa_auto>>
dfa_vars == <<dfa_builder, dfa_bp, dfa_auto>>

\* ------------------------------------------------------------------ HashMap
EmptyMap == [k \in {} |-> {}]

contains_key(m, k) == k \in DOMAIN m

insert(m, k, v) == [x \in (DOMAIN m) \cup {k} |-> IF x = k THEN v ELSE m[x]]

\* map.get(k).unwrap_or(default)
get_or(m, k, default) == IF k \in DOMAIN m THEN m[k] ELSE default

\* HashMap::iter / HashSet::iter: the entries, each once, in an order the table fixes
RECURSIVE iter(_)
iter(S) ==
    IF S = {} THEN <<>>
    ELSE LET x == CHOOSE x \in S : TRUE IN <<x>> \o iter(S \ {x})

\* Iterator::flat_map and Iterator::chain on sequences of sequences: the items
\* of each, in order
RECURSIVE flatten(_)
flatten(seqs) == IF seqs = <<>> THEN <<>> ELSE Head(seqs) \o flatten(Tail(seqs))

\* ------------------------------------------------------------------ NFA builder
NFAutoBuilder_start(start_state) ==
    [graph |-> EmptyMap, void_graph |-> EmptyMap, wildcard_graph |-> EmptyMap,
     start_state |-> start_state, accept_state_set |-> {}]

NFAutoBuilder_accept(self, state) ==
    [self EXCEPT !.accept_state_set = @ \cup {state}]

NFAutoBuilder_connect(self, from, trans, to) ==
    LET g1 == IF ~contains_key(self.graph, from)
              THEN insert(self.graph, from, EmptyMap) ELSE self.graph
        t1 == IF ~contains_key(g1[from], trans)
              THEN insert(g1[from], trans, {}) ELSE g1[from]
        t2 == insert(t1, trans, t1[trans] \cup {to})
    IN  [self EXCEPT !.graph = insert(g1, from, t2)]

\* a connect_void that replaces the destinations of from by the new one
NFAutoBuilder_connect_void_replace(self, from, to) ==
    [self EXCEPT !.void_graph = insert(self.void_graph, from, {to})]

NFAutoBuilder_connect_void(self, from, to) ==
    LET g1 == IF ~contains_key(self.void_graph, from)
              THEN insert(self.void_graph, from, {}) ELSE self.void_graph
    IN  [self EXCEPT !.void_graph = insert(g1, from, g1[from] \cup {to})]

NFAutoBuilder_connect_wildcard(self, from, to) ==
    LET g1 == IF ~contains_key(self.wildcard_graph, from)
              THEN insert(self.wildcard_graph, from, {}) ELSE self.wildcard_graph
    IN  [self EXCEPT !.wildcard_graph = insert(g1, from, g1[from] \cup {to})]

NFAutoBuilder_finalize(self) ==
    [graph |-> self.graph, void_graph |-> self.void_graph,
     wildcard_graph |-> self.wildcard_graph, start_state |-> self.start_state,
     accept_state_set |-> self.accept_state_set]

\* enum ConnType
ConnType_Plain(trans) == [type |-> "Plain", trans |-> trans]
ConnType_Void == [type |-> "Void"]
ConnType_Wildcard == [type |-> "Wildcard"]

\* the items are (from, ConnType, to): the plain table, chained with the void
\* table, chained with the wildcard table
NFAutoBlueprint_iterate_connections(self) ==
    LET to_set_items(from, conn, to_set) ==
            LET tos == iter(to_set)
            IN  [i \in 1 .. Len(tos) |-> [from |-> from, conn |-> conn, to |-> tos[i]]]
        plain_of(from) ==
            LET transs == iter(DOMAIN self.graph[from])
            IN  flatten([i \in 1 .. Len(transs) |->
                    to_set_items(from, ConnType_Plain(transs[i]), self.graph[from][transs[i]])])
        froms == iter(DOMAIN self.graph)
        void_froms == iter(DOMAIN self.void_graph)
        wildcard_froms == iter(DOMAIN self.wildcard_graph)
    IN  flatten([i \in 1 .. Len(froms) |-> plain_of(froms[i])])
        \o flatten([i \in 1 .. Len(void_froms) |->
              to_set_items(void_froms[i], ConnType_Void, self.void_graph[void_froms[i]])])
        \o flatten([i \in 1 .. Len(wildcard_froms) |->
              to_set_items(wildcard_froms[i], ConnType_Wildcard,
                           self.wildcard_graph[wildcard_froms[i]])])

\* ------------------------------------------------------------------ NFA walker
\* one pass of the closure loop: the states a void edge reaches from state_set
void_reachable(blueprint, state_set) ==
    UNION { get_or(blueprint.void_graph, state, {}) : state \in state_set }

\* a closure that makes one pass instead of looping to the fixed point
extend_current_state_set_once(blueprint, current_state_set) ==
    current_state_set \cup void_reachable(blueprint, current_state_set)

RECURSIVE extend_current_state_set(_, _)
extend_current_state_set(blueprint, current_state_set) ==
    LET extended == current_state_set \cup void_reachable(blueprint, current_state_set)
    IN  IF Cardinality(extended) = Cardinality(current_state_set)
        THEN current_state_set
        ELSE extend_current_state_set(blueprint, extended)

\* a create that seeds the walker with the start state alone
NFAutoBlueprint_create_unclosed(self) ==
    [current_state_set |-> {self.start_state}]

NFAutoBlueprint_create(self) ==
    [current_state_set |-> extend_current_state_set(self, {self.start_state})]

NFAuto_is_accepted(blueprint, auto) ==
    (auto.current_state_set \cap blueprint.accept_state_set) # {}

NFAuto_is_dead(auto) == auto.current_state_set = {}

\* a trigger that restarts a dead walker: it steps from the start state when
\* the current state set is empty
NFAuto_trigger_reseed(blueprint, auto, trans) ==
    LET from_set == IF auto.current_state_set = {}
                    THEN extend_current_state_set(blueprint, {blueprint.start_state})
                    ELSE auto.current_state_set
        raw == UNION { get_or(get_or(blueprint.graph, state, EmptyMap), trans, {})
                         \cup get_or(blueprint.wildcard_graph, state, {})
                       : state \in from_set }
    IN  [current_state_set |-> extend_current_state_set(blueprint, raw)]

\* a trigger that takes the wildcard edges of a state only when the state has
\* no plain edge for the label (the precedence rule of the DFA fallback)
NFAuto_trigger_plain_first(blueprint, auto, trans) ==
    LET raw == UNION { IF contains_key(get_or(blueprint.graph, state, EmptyMap), trans)
                       THEN blueprint.graph[state][trans]
                       ELSE get_or(blueprint.wildcard_graph, state, {})
                       : state \in auto.current_state_set }
    IN  [current_state_set |-> extend_current_state_set(blueprint, raw)]

NFAuto_trigger(blueprint, auto, trans) ==
    LET raw == UNION { get_or(get_or(blueprint.graph, state, EmptyMap), trans, {})
                         \cup get_or(blueprint.wildcard_graph, state, {})
                       : state \in auto.current_state_set }
    IN  [current_state_set |-> extend_current_state_set(blueprint, raw)]

NFAuto_test_trigger(auto, trans) == ~NFAuto_is_dead(auto)

\* ------------------------------------------------------------------ algo.rs
\* Option<&V>
None == [some |-> FALSE]
Some(v) == [some |-> TRUE, val |-> v]
unwrap_or(opt, default) == IF opt.some THEN opt.val ELSE default
map_get(m, k) == IF k \in DOMAIN m THEN Some(m[k]) ELSE None

\* NFAutoBlueprint::connections_from: the three edge tables' entries of one state
connections_from(nfa, state) ==
    [plain |-> map_get(nfa.graph, state),
     void |-> map_get(nfa.void_graph, state),
     wildcard |-> map_get(nfa.wildcard_graph, state)]

\* a closure that makes one pass of the loop and returns
extend_state_set_once(nfa, state_set) ==
    state_set \cup UNION { unwrap_or(connections_from(nfa, state).void, {})
                           : state \in state_set }

RECURSIVE extend_state_set(_, _)
extend_state_set(nfa, state_set) ==
    LET void_reach == UNION { unwrap_or(connections_from(nfa, state).void, {})
                              : state \in state_set }
        extended == state_set \cup void_reach
    IN  IF Cardinality(extended) = Cardinality(state_set)
        THEN state_set
        ELSE extend_state_set(nfa, extended)

\* ------------------------------------------------------------------ panics
\* the outcome of a call that may panic
Ok(v) == [panic |-> "none", val |-> v]
Panic(msg) == [panic |-> msg]

\* ------------------------------------------------------------------ DFA builder
DFAutoBuilder_start(start_state) ==
    [graph |-> EmptyMap, fallback_graph |-> EmptyMap,
     start_state |-> start_state, accept_state_set |-> {}]

\* a connect that takes any second registration of (from, trans) for a conflict
DFAutoBuilder_connect_strict(self, from, trans, to) ==
    LET g1 == IF ~contains_key(self.graph, from)
              THEN insert(self.graph, from, EmptyMap) ELSE self.graph
        old_to == map_get(g1[from], trans)
        g2 == insert(g1, from, insert(g1[from], trans, to))
    IN  IF old_to.some
        THEN Panic("duplicated transition")
        ELSE Ok([self EXCEPT !.graph = g2])

DFAutoBuilder_connect(self, from, trans, to) ==
    LET g1 == IF ~contains_key(self.graph, from)
              THEN insert(self.graph, from, EmptyMap) ELSE self.graph
        old_to == map_get(g1[from], trans)
        g2 == insert(g1, from, insert(g1[from], trans, to))
    IN  IF old_to.some /\ old_to.val # to
        THEN Panic("duplicated transition")
        ELSE Ok([self EXCEPT !.graph = g2])

\* a connect_fallback that lets the second registration replace the first
DFAutoBuilder_connect_fallback_replace(self, from, to) ==
    Ok([self EXCEPT !.fallback_graph = insert(self.fallback_graph, from, to)])

DFAutoBuilder_connect_fallback(self, from, to) ==
    LET old_to == map_get(self.fallback_graph, from)
    IN  IF old_to.some /\ old_to.val # to
        THEN Panic("duplicated fallback transition")
        ELSE Ok([self EXCEPT !.fallback_graph = insert(self.fallback_graph, from, to)])

DFAutoBuilder_accept(self, state) ==
    [self EXCEPT !.accept_state_set = @ \cup {state}]

DFAutoBuilder_finalize(self) ==
    [graph |-> self.graph, fallback_graph |-> self.fallback_graph,
     start_state |-> self.start_state, accept_state_set |-> self.accept_state_set]

\* the items are (from, trans, to)
DFAutoBlueprint_iterate_connections(self) ==
    LET froms == iter(DOMAIN self.graph)
        of(from) ==
            LET transs == iter(DOMAIN self.graph[from])
            IN  [i \in 1 .. Len(transs) |->
                    [from |-> from, trans |-> transs[i], to |-> self.graph[from][transs[i]]]]
    IN  flatten([i \in 1 .. Len(froms) |-> of(froms[i])])

\* ------------------------------------------------------------------ DFA walker
DFAutoBlueprint_create(self) == [current_state |-> self.start_state]

DFAuto_is_accepted(blueprint, auto) ==
    auto.current_state \in blueprint.accept_state_set

\* a test_trigger that asks whether the state has any plain edge at all
DFAuto_test_trigger_any_edge(blueprint, auto, trans) ==
    \/ contains_key(blueprint.graph, auto.current_state)
    \/ contains_key(blueprint.fallback_graph, auto.current_state)

\* a test_trigger that does not look at the fallback table
DFAuto_test_trigger_plain_only(blueprint, auto, trans) ==
    LET from_state == map_get(blueprint.graph, auto.current_state)
    IN  IF from_state.some THEN contains_key(from_state.val, trans) ELSE FALSE

DFAuto_test_trigger(blueprint, auto, trans) ==
    LET from_state == map_get(blueprint.graph, auto.current_state)
        plain_test == IF from_state.some THEN contains_key(from_state.val, trans) ELSE FALSE
    IN  plain_test \/ contains_key(blueprint.fallback_graph, auto.current_state)

\* a trigger that takes the fallback edge whenever the state has one
DFAuto_trigger_fallback_first(blueprint, auto, trans) ==
    LET fallback == map_get(blueprint.fallback_graph, auto.current_state)
        from_state == map_get(blueprint.graph, auto.current_state)
        plain == IF from_state.some THEN map_get(from_state.val, trans) ELSE None
    IN  IF fallback.some THEN Ok([current_state |-> fallback.val])
        ELSE IF plain.some THEN Ok([current_state |-> plain.val])
        ELSE Panic("called Option::unwrap() on a None value")

DFAuto_trigger(blueprint, auto, trans) ==
    LET from_state == map_get(blueprint.graph, auto.current_state)
        plain == IF from_state.some THEN map_get(from_state.val, trans) ELSE None
        fallback == map_get(blueprint.fallback_graph, auto.current_state)
    IN  IF plain.some THEN Ok([current_state |-> plain.val])
        ELSE IF fallback.some THEN Ok([current_state |-> fallback.val])
        ELSE Panic("called Option::unwrap() on a None value")

\* ------------------------------------------------------------------ algo.rs: determinize
\* the orders in which a HashMap may hand out the keys of S
Orders(S) ==
    { f \in [1 .. Cardinality(S) -> S] : \A x \in S : \E i \in 1 .. Cardinality(S) : f[i] = x }

\* an accumulator that collects the destinations without closing them
aggregated_connections_unclosed(nfa, state_set) ==
    LET plain(state) == unwrap_or(connections_from(nfa, state).plain, EmptyMap)
        keys == UNION { DOMAIN plain(state) : state \in state_set }
    IN  [trans \in keys |->
            UNION { plain(state)[trans]
                    : state \in { x \in state_set : trans \in DOMAIN plain(x) } }]

\* aggregated_connections after the loop over the members of state_set
aggregated_connections(nfa, state_set) ==
    LET plain(state) == unwrap_or(connections_from(nfa, state).plain, EmptyMap)
        keys == UNION { DOMAIN plain(state) : state \in state_set }
    IN  [trans \in keys |->
            UNION { extend_state_set(nfa, plain(state)[trans])
                    : state \in { x \in state_set : trans \in DOMAIN plain(x) } }]

\* aggregated_wildcard_connections after the loop over the members of state_set
aggregated_wildcard_connections(nfa, state_set) ==
    UNION { extend_state_set(nfa, unwrap_or(connections_from(nfa, state).wildcard, {}))
            : state \in state_set }

\* a loop that accepts state_set only when every member is an NFA accept state
accept_if_all(nfa, builder, state_set) ==
    IF \A state \in state_set : state \in nfa.accept_state_set
    THEN DFAutoBuilder_accept(builder, state_set)
    ELSE builder

\* builder after the loop over the members of state_set: accept(state_set) is
\* called once per member that is an NFA accept state
accept_if_any(nfa, builder, state_set) ==
    IF \E state \in state_set : state \in nfa.accept_state_set
    THEN DFAutoBuilder_accept(builder, state_set)
    ELSE builder

\* a second for loop that ends after the first label of the order
connect_aggregated_first_only(order, aggregated, state_set, builder, list, resolved) ==
    IF order = <<>> THEN Ok([builder |-> builder, list |-> list])
    ELSE LET trans == Head(order)
             to_btreeset == aggregated[trans]
             r == DFAutoBuilder_connect(builder, state_set, trans, to_btreeset)
         IN  IF r.panic # "none" THEN Panic(r.panic)
             ELSE Ok([builder |-> r.val,
                      list |-> IF to_btreeset \notin resolved THEN Append(list, to_btreeset)
                               ELSE list])

\* the second for loop: connect and push, label by label in the order given
RECURSIVE connect_aggregated(_, _, _, _, _, _)
connect_aggregated(order, aggregated, state_set, builder, list, resolved) ==
    IF order = <<>> THEN Ok([builder |-> builder, list |-> list])
    ELSE LET trans == Head(order)
             to_btreeset == aggregated[trans]
             r == DFAutoBuilder_connect(builder, state_set, trans, to_btreeset)
         IN  IF r.panic # "none" THEN Panic(r.panic)
             ELSE connect_aggregated(Tail(order), aggregated, state_set, r.val,
                     IF to_btreeset \notin resolved THEN Append(list, to_btreeset)
                     ELSE list,
                     resolved)

\* the wildcard part of the loop body: connect_fallback and push
connect_wildcard_aggregated(wildcard_to, state_set, builder, list, resolved) ==
    IF wildcard_to = {} THEN Ok([builder |-> builder, list |-> list])
    ELSE LET r == DFAutoBuilder_connect_fallback(builder, state_set, wildcard_to)
         IN  IF r.panic # "none" THEN Panic(r.panic)
             ELSE Ok([builder |-> r.val,
                      list |-> IF wildcard_to \notin resolved THEN Append(list, wildcard_to)
                               ELSE list])

\* determinize up to the head of the while loop
determinize_start(nfa) ==
    LET start_state_set == extend_state_set(nfa, {nfa.start_state})
    IN  [builder |-> DFAutoBuilder_start(start_state_set),
         unresolved_state_set_list |-> <<start_state_set>>,
         resolved_state_set_set |-> {}]

\* an iteration that reads the last state set of the list and leaves it there
determinize_iteration_peek(nfa, loc, order) ==
    LET n == Len(loc.unresolved_state_set_list)
        state_set == loc.unresolved_state_set_list[n]
        b1 == accept_if_any(nfa, loc.builder, state_set)
        r1 == connect_aggregated(order, aggregated_connections(nfa, state_set),
                                 state_set, b1, loc.unresolved_state_set_list,
                                 loc.resolved_state_set_set \cup {state_set})
    IN  IF r1.panic # "none" THEN Panic(r1.panic)
        ELSE LET r2 == connect_wildcard_aggregated(
                           aggregated_wildcard_connections(nfa, state_set),
                           state_set, r1.val.builder, r1.val.list,
                           loc.resolved_state_set_set \cup {state_set})
             IN  IF r2.panic # "none" THEN Panic(r2.panic)
                 ELSE Ok([builder |-> r2.val.builder,
                          unresolved_state_set_list |-> r2.val.list,
                          resolved_state_set_set |-> loc.resolved_state_set_set
                                                       \cup {state_set}])

\* one iteration of the while loop: pop a state set and resolve it; order is
\* the order in which aggregated_connections is iterated
determinize_iteration(nfa, loc, order) ==
    LET n == Len(loc.unresolved_state_set_list)
        state_set == loc.unresolved_state_set_list[n]
        popped == SubSeq(loc.unresolved_state_set_list, 1, n - 1)
        b1 == accept_if_any(nfa, loc.builder, state_set)
        r1 == connect_aggregated(order, aggregated_connections(nfa, state_set),
                                 state_set, b1, popped, loc.resolved_state_set_set)
    IN  IF r1.panic # "none" THEN Panic(r1.panic)
        ELSE LET r2 == connect_wildcard_aggregated(
                           aggregated_wildcard_connections(nfa, state_set),
                           state_set, r1.val.builder, r1.val.list,
                           loc.resolved_state_set_set)
             IN  IF r2.panic # "none" THEN Panic(r2.panic)
                 ELSE Ok([builder |-> r2.val.builder,
                          unresolved_state_set_list |-> r2.val.list,
                          resolved_state_set_set |-> loc.resolved_state_set_set
                                                       \cup {state_set}])

\* the while loop run to its end, the accumulator of every iteration iterated
\* in the order iter gives
RECURSIVE determinize_loop(_, _)
determinize_loop(nfa, loc) ==
    IF loc.unresolved_state_set_list = <<>> THEN Ok(loc)
    ELSE LET state_set == loc.unresolved_state_set_list[Len(loc.unresolved_state_set_list)]
             r == determinize_iteration(nfa, loc,
                     iter(DOMAIN aggregated_connections(nfa, state_set)))
         IN  IF r.panic # "none" THEN Panic(r.panic)
             ELSE determinize_loop(nfa, r.val)

determinize(nfa) ==
    LET r == determinize_loop(nfa, determinize_start(nfa))
    IN  IF r.panic # "none" THEN Panic(r.panic)
        ELSE Ok(DFAutoBuilder_finalize(r.val.builder))

\* ------------------------------------------------------------------ re.rs
Re_plain(trans) == [op |-> "Plain", trans |-> trans]
Re_zero_or_more(inner) == [op |-> "ZeroOrMore", inner |-> inner]
Re_concat(first, second) == [op |-> "Concat", first |-> first, second |-> second]
Re_either(first, second) == [op |-> "Either", first |-> first, second |-> second]
Re_wildcard == [op |-> "Wildcard"]

\* update_builder(builder, updater): the builder is moved out, updated and
\* moved back
update_builder(builder, updated) == updated

\* a ZeroOrMore that leaves out the skip edge left -> right
RECURSIVE recursive_compile_no_skip(_, _, _, _, _)
recursive_compile_no_skip(self, builder, counter, left, right) ==
    CASE self.op = "Plain" ->
            [builder |-> update_builder(builder,
                            NFAutoBuilder_connect(builder, left, self.trans, right)),
             counter |-> counter]
      [] self.op = "ZeroOrMore" ->
            LET inner_left == counter
                inner_right == counter + 1
                b1 == NFAutoBuilder_connect_void(builder, left, inner_left)
                b2 == NFAutoBuilder_connect_void(b1, inner_right, right)
                b3 == NFAutoBuilder_connect_void(b2, inner_right, inner_left)
            IN  recursive_compile_no_skip(self.inner, update_builder(builder, b3),
                                          counter + 2, inner_left, inner_right)
      [] self.op = "Concat" ->
            LET middle == counter
                r1 == recursive_compile_no_skip(self.first, builder, counter + 1,
                                                left, middle)
            IN  recursive_compile_no_skip(self.second, r1.builder, r1.counter,
                                          middle, right)
      [] self.op = "Either" ->
            LET first_left == counter
                first_right == counter + 1
                second_left == counter + 2
                second_right == counter + 3
                b1 == NFAutoBuilder_connect_void(builder, left, first_left)
                b2 == NFAutoBuilder_connect_void(b1, left, second_left)
                b3 == NFAutoBuilder_connect_void(b2, first_right, right)
                b4 == NFAutoBuilder_connect_void(b3, second_right, right)
                r1 == recursive_compile_no_skip(self.first, update_builder(builder, b4),
                                                counter + 4, first_left, first_right)
            IN  recursive_compile_no_skip(self.second, r1.builder, r1.counter,
                                          second_left, second_right)
      [] self.op = "Wildcard" ->
            [builder |-> update_builder(builder,
                            NFAutoBuilder_connect_wildcard(builder, left, right)),
             counter |-> counter]

\* a Concat that reads the counter for middle and does not advance it
RECURSIVE recursive_compile_shared_middle(_, _, _, _, _)
recursive_compile_shared_middle(self, builder, counter, left, right) ==
    CASE self.op = "Plain" ->
            [builder |-> update_builder(builder,
                            NFAutoBuilder_connect(builder, left, self.trans, right)),
             counter |-> counter]
      [] self.op = "ZeroOrMore" ->
            LET inner_left == counter
                inner_right == counter + 1
                b1 == NFAutoBuilder_connect_void(builder, left, inner_left)
                b2 == NFAutoBuilder_connect_void(b1, inner_right, right)
                b3 == NFAutoBuilder_connect_void(b2, inner_right, inner_left)
                b4 == NFAutoBuilder_connect_void(b3, left, right)
            IN  recursive_compile_shared_middle(self.inner, update_builder(builder, b4),
                                                counter + 2, inner_left, inner_right)
      [] self.op = "Concat" ->
            LET middle == counter
                r1 == recursive_compile_shared_middle(self.first, builder, counter,
                                                      left, middle)
            IN  recursive_compile_shared_middle(self.second, r1.builder, r1.counter, middle, right)
      [] self.op = "Either" ->
            LET first_left == counter
                first_right == counter + 1
                second_left == counter + 2
                second_right == counter + 3
                b1 == NFAutoBuilder_connect_void(builder, left, first_left)
                b2 == NFAutoBuilder_connect_void(b1, left, second_left)
                b3 == NFAutoBuilder_connect_void(b2, first_right, right)
                b4 == NFAutoBuilder_connect_void(b3, second_right, right)
                r1 == recursive_compile_shared_middle(self.first, update_builder(builder, b4),
                                        counter + 4, first_left, first_right)
            IN  recursive_compile_shared_middle(self.second, r1.builder, r1.counter,
                                  second_left, second_right)
      [] self.op = "Wildcard" ->
            [builder |-> update_builder(builder,
                            NFAutoBuilder_connect_wildcard(builder, left, right)),
             counter |-> counter]

\* recursive_compile(self, &mut builder, &mut counter, left, right): the
\* builder and the counter after the call
RECURSIVE recursive_compile(_, _, _, _, _)
recursive_compile(self, builder, counter, left, right) ==
    CASE self.op = "Plain" ->
            [builder |-> update_builder(builder,
                            NFAutoBuilder_connect(builder, left, self.trans, right)),
             counter |-> counter]
      [] self.op = "ZeroOrMore" ->
            LET inner_left == counter
                inner_right == counter + 1
                b1 == NFAutoBuilder_connect_void(builder, left, inner_left)
                b2 == NFAutoBuilder_connect_void(b1, inner_right, right)
                b3 == NFAutoBuilder_connect_void(b2, inner_right, inner_left)
                b4 == NFAutoBuilder_connect_void(b3, left, right)
            IN  recursive_compile(self.inner, update_builder(builder, b4),
                                  counter + 2, inner_left, inner_right)
      [] self.op = "Concat" ->
            LET middle == counter
                r1 == recursive_compile(self.first, builder, counter + 1, left, middle)
            IN  recursive_compile(self.second, r1.builder, r1.counter, middle, right)
      [] self.op = "Either" ->
            LET first_left == counter
                first_right == counter + 1
                second_left == counter + 2
                second_right == counter + 3
                b1 == NFAutoBuilder_connect_void(builder, left, first_left)
                b2 == NFAutoBuilder_connect_void(b1, left, second_left)
                b3 == NFAutoBuilder_connect_void(b2, first_right, right)
                b4 == NFAutoBuilder_connect_void(b3, second_right, right)
                r1 == recursive_compile(self.first, update_builder(builder, b4),
                                        counter + 4, first_left, first_right)
            IN  recursive_compile(self.second, r1.builder, r1.counter,
                                  second_left, second_right)
      [] self.op = "Wildcard" ->
            [builder |-> update_builder(builder,
                            NFAutoBuilder_connect_wildcard(builder, left, right)),
             counter |-> counter]

RePriv_compile(self) ==
    LET builder == NFAutoBuilder_accept(NFAutoBuilder_start(0), 1)
        counter == 2
    IN  NFAutoBuilder_finalize(recursive_compile(self, builder, counter, 0, 1).builder)

\* the calls of recursive_compile that compiling self makes, self's own
\* included, each with the counter and the boundaries it is given
RECURSIVE Invocations(_, _, _, _)
Invocations(self, counter, left, right) ==
    LET after(first, c, l, r) ==
            recursive_compile(first, NFAutoBuilder_start(0), c, l, r).counter
    IN  {[self |-> self, counter |-> counter, left |-> left, right |-> right]}
          \cup CASE self.op = "ZeroOrMore" ->
                       Invocations(self.inner, counter + 2, counter, counter + 1)
                  [] self.op = "Concat" ->
                       Invocations(self.first, counter + 1, left, counter)
                         \cup Invocations(self.second,
                                          after(self.first, counter + 1, left, counter),
                                          counter, right)
                  [] self.op = "Either" ->
                       Invocations(self.first, counter + 4, counter, counter + 1)
                         \cup Invocations(self.second,
                                          after(self.first, counter + 4, counter, counter + 1),
                                          counter + 2, counter + 3)
                  [] OTHER -> {}

\* the regex ASTs with exactly n nodes, leaves labelled from ReLabels
RECURSIVE ReOfSize(_)
ReOfSize(n) ==
    IF n < 1 THEN {}
    ELSE IF n = 1 THEN { Re_plain(t) : t \in ReLabels } \cup { Re_wildcard }
    ELSE { Re_zero_or_more(r) : r \in ReOfSize(n - 1) }
         \cup UNION { { Re_concat(r1, r2) : r1 \in ReOfSize(k), r2 \in ReOfSize(n - 1 - k) }
                      : k \in 1 .. (n - 2) }
         \cup UNION { { Re_either(r1, r2) : r1 \in ReOfSize(k), r2 \in ReOfSize(n - 1 - k) }
                      : k \in 1 .. (n - 2) }

\* (a|b)*c, the pattern of tests::compile_and_match
ABStarC ==
    Re_concat(Re_zero_or_more(Re_either(Re_plain("a"), Re_plain("b"))), Re_plain("c"))

\* (a|b)*.(c|d), the pattern of tests::correct_auto
ABStarAnyCD ==
    Re_concat(Re_zero_or_more(Re_either(Re_plain("a"), Re_plain("b"))),
              Re_concat(Re_wildcard, Re_either(Re_plain("c"), Re_plain("d"))))

\* ------------------------------------------------------------------ auto.rs
\* the Auto trait: kind names the implementor, "NFA" (NFAuto) or "DFA" (DFAuto)
Auto_trigger(kind, blueprint, self, trans) ==
    IF kind = "NFA" THEN Ok(NFAuto_trigger(blueprint, self, trans))
    ELSE DFAuto_trigger(blueprint, self, trans)

Auto_test_trigger(kind, blueprint, self, trans) ==
    IF kind = "NFA" THEN NFAuto_test_trigger(self, trans)
    ELSE DFAuto_test_trigger(blueprint, self, trans)

Auto_is_accepted(kind, blueprint, self) ==
    IF kind = "NFA" THEN NFAuto_is_accepted(blueprint, self)
    ELSE DFAuto_is_accepted(blueprint, self)

\* A running call of test or search: fn is the method, pc its position ("loop":
\* at the head of the for loop, "returned": after return), accepted the local
\* of search, ret the value returned.
NoCall == [fn |-> "none", pc |-> "returned", accepted |-> FALSE, ret |-> FALSE]
EnterTest == [fn |-> "test", pc |-> "loop", accepted |-> FALSE, ret |-> FALSE]
EnterSearch == [fn |-> "search", pc |-> "loop", accepted |-> FALSE, ret |-> FALSE]

\* a test that skips a symbol whose test_trigger fails and goes on
Auto_test_next_skip(kind, blueprint, self, call, trans) ==
    IF ~Auto_test_trigger(kind, blueprint, self, trans)
    THEN Ok([call |-> call, self |-> self])
    ELSE LET r == Auto_trigger(kind, blueprint, self, trans)
         IN  IF r.panic # "none" THEN Panic(r.panic)
             ELSE Ok([call |-> call, self |-> r.val])

\* One iteration of the for loop of test with the next item of the iterator:
\* the call and the walker after it, or the panic of trigger.
Auto_test_next(kind, blueprint, self, call, trans) ==
    IF ~Auto_test_trigger(kind, blueprint, self, trans)
    THEN Ok([call |-> [call EXCEPT !.pc = "returned", !.ret = FALSE], self |-> self])
    ELSE LET r == Auto_trigger(kind, blueprint, self, trans)
         IN  IF r.panic # "none" THEN Panic(r.panic)
             ELSE Ok([call |-> call, self |-> r.val])

\* the iterator of test is exhausted
Auto_test_end(kind, blueprint, self, call) ==
    [call EXCEPT !.pc = "returned", !.ret = Auto_is_accepted(kind, blueprint, self)]

\* One iteration of the for loop of search.
Auto_search_next(kind, blueprint, self, call, trans) ==
    LET accepted == IF Auto_is_accepted(kind, blueprint, self) THEN TRUE ELSE call.accepted
    IN  IF ~Auto_test_trigger(kind, blueprint, self, trans)
        THEN Ok([call |-> [call EXCEPT !.accepted = accepted, !.pc = "returned",
                                       !.ret = accepted],
                 self |-> self])
        ELSE LET r == Auto_trigger(kind, blueprint, self, trans)
             IN  IF r.panic # "none" THEN Panic(r.panic)
                 ELSE Ok([call |-> [call EXCEPT !.accepted = accepted], self |-> r.val])

\* a search that forgets to look at the final state
Auto_search_end_stale(kind, blueprint, self, call) ==
    [call EXCEPT !.pc = "returned", !.ret = call.accepted]

\* the iterator of search is exhausted
Auto_search_end(kind, blueprint, self, call) ==
    [call EXCEPT !.pc = "returned",
                 !.ret = (call.accepted \/ Auto_is_accepted(kind, blueprint, self))]

\* ------------------------------------------------------------------ lib.rs
\* the DFA of lib.rs: one edge table, no fallback table
lib_DFAutoBuilder_with_start_state(start_state) ==
    [graph |-> EmptyMap, start_state |-> start_state, accept_state_set |-> {}]

lib_DFAutoBuilder_trans(self, from, trans, to) ==
    LET g1 == IF ~contains_key(self.graph, from)
              THEN insert(self.graph, from, EmptyMap) ELSE self.graph
        old_to == map_get(g1[from], trans)
        g2 == insert(g1, from, insert(g1[from], trans, to))
    IN  IF old_to.some /\ old_to.val # to
        THEN Panic("duplicated transition")
        ELSE Ok([self EXCEPT !.graph = g2])

lib_DFAutoBuilder_accept(self, state) ==
    [self EXCEPT !.accept_state_set = @ \cup {state}]

lib_DFAutoBuilder_finalize(self) ==
    [graph |-> self.graph, start_state |-> self.start_state,
     accept_state_set |-> self.accept_state_set]

lib_DFAutoBlueprint_create(self) == [current_state |-> self.start_state]

lib_DFAuto_is_accepted(blueprint, auto) ==
    auto.current_state \in blueprint.accept_state_set

\* graph.get(current_state).unwrap().contains_key(trans)
lib_DFAuto_test_trigger(blueprint, auto, trans) ==
    LET from_state == map_get(blueprint.graph, auto.current_state)
    IN  IF ~from_state.some THEN Panic("called Option::unwrap() on a None value")
        ELSE Ok(contains_key(from_state.val, trans))

\* graph.get(current_state).unwrap().get(trans).unwrap().clone()
lib_DFAuto_trigger(blueprint, auto, trans) ==
    LET from_state == map_get(blueprint.graph, auto.current_state)
        to == IF from_state.some THEN map_get(from_state.val, trans) ELSE None
    IN  IF ~from_state.some \/ ~to.some
        THEN Panic("called Option::unwrap() on a None value")
        ELSE Ok([current_state |-> to.val])

\* ------------------------------------------------------------------ driver
NoLast == [op |-> "none"]

\* the variables a run does not use keep these values
IdleNFA ==
    /\ nfa_builder = NFAutoBuilder_start(0)
    /\ nfa_bp = NFAutoBuilder_finalize(NFAutoBuilder_start(0))
    /\ nfa_auto = [current_state_set |-> {}]

IdleDFA ==
    /\ dfa_builder = DFAutoBuilder_start(0)
    /\ dfa_bp = DFAutoBuilder_finalize(DFAutoBuilder_start(0))
    /\ dfa_auto = [current_state |-> 0]

IdleCalls == nfa_call = NoCall /\ dfa_call = NoCall

IdleDet ==
    det = [builder |-> DFAutoBuilder_start({}), unresolved_state_set_list |-> <<>>,
           resolved_state_set_set |-> {}]

IdleRe == re = [op |-> "Wildcard"] /\ input = <<>>

IdleWalkers == walkers = <<>>

\* ---- the state identifiers a caller hands to a builder
\* State identifiers are opaque to the code (S: Hash + Eq), so the hand-built
\* automata are enumerated up to renaming: a call names a state already in use
\* or the first unused one.
NFAMentioned(b) ==
    {b.start_state} \cup b.accept_state_set
      \cup DOMAIN b.graph \cup DOMAIN b.void_graph \cup DOMAIN b.wildcard_graph
      \cup UNION { UNION { b.graph[f][t] : t \in DOMAIN b.graph[f] } : f \in DOMAIN b.graph }
      \cup UNION { b.void_graph[f] : f \in DOMAIN b.void_graph }
      \cup UNION { b.wildcard_graph[f] : f \in DOMAIN b.wildcard_graph }

DFAMentioned(b) ==
    {b.start_state} \cup b.accept_state_set
      \cup DOMAIN b.graph \cup DOMAIN b.fallback_graph
      \cup UNION { { b.graph[f][t] : t \in DOMAIN b.graph[f] } : f \in DOMAIN b.graph }
      \cup { b.fallback_graph[f] : f \in DOMAIN b.fallback_graph }

Nameable(used) == { s \in States : s <= Cardinality(used) }

NFANamed(from, to) ==
    /\ from \in Nameable(NFAMentioned(nfa_builder))
    /\ to \in Nameable(NFAMentioned(nfa_builder) \cup {from})

DFANamed(from, to) ==
    /\ from \in Nameable(DFAMentioned(dfa_builder))
    /\ to \in Nameable(DFAMentioned(dfa_builder) \cup {from})

\* ---- hand-built NFA: NFAutoBuilder::start(0), then chained builder calls
NFAConnect(from, trans, to) ==
    /\ pc = "build" /\ calls < MaxCalls
    /\ NFANamed(from, to)
    /\ nfa_builder' = NFAutoBuilder_connect(nfa_builder, from, trans, to)
    /\ calls' = calls + 1
    /\ UNCHANGED <<pc, nfa_bp, nfa_auto, dfa_vars, det, re, walkers, input, nfa_call, dfa_call, panic, last>>

NFAConnectVoid(from, to) ==
    /\ pc = "build" /\ calls < MaxCalls
    /\ NFANamed(from, to)
    /\ nfa_builder' = NFAutoBuilder_connect_void(nfa_builder, from, to)
    /\ calls' = calls + 1
    /\ UNCHANGED <<pc, nfa_bp, nfa_auto, dfa_vars, det, re, walkers, input, nfa_call, dfa_call, panic, last>>

NFAConnectWildcard(from, to) ==
    /\ pc = "build" /\ calls < MaxCalls
    /\ NFANamed(from, to)
    /\ nfa_builder' = NFAutoBuilder_connect_wildcard(nfa_builder, from, to)
    /\ calls' = calls + 1
    /\ UNCHANGED <<pc, nfa_bp, nfa_auto, dfa_vars, det, re, walkers, input, nfa_call, dfa_call, panic, last>>

NFAAccept(state) ==
    /\ pc = "build" /\ calls < MaxCalls
    /\ NFANamed(state, state)
    /\ nfa_builder' = NFAutoBuilder_accept(nfa_builder, state)
    /\ calls' = calls + 1
    /\ UNCHANGED <<pc, nfa_bp, nfa_auto, dfa_vars, det, re, walkers, input, nfa_call, dfa_call, panic, last>>

NFAFinalize ==
    /\ pc = "build"
    /\ nfa_bp' = NFAutoBuilder_finalize(nfa_builder)
    /\ pc' = "nfa_blueprint"
    /\ UNCHANGED <<calls, nfa_builder, nfa_auto, dfa_vars, det, re, walkers, input, nfa_call, dfa_call, panic, last>>

\* the caller collects the items of iterate_connections()
NFAIterate ==
    /\ pc = "nfa_blueprint"
    /\ last' = [op |-> "iterate_connections",
                items |-> NFAutoBlueprint_iterate_connections(nfa_bp)]
    /\ UNCHANGED <<pc, calls, nfa_vars, dfa_vars, det, re, walkers, input, nfa_call, dfa_call, panic>>

NFACreate ==
    /\ pc = "nfa_blueprint"
    /\ nfa_auto' = NFAutoBlueprint_create(nfa_bp)
    /\ pc' = "walk"
    /\ last' = [op |-> "create"]
    /\ UNCHANGED <<calls, nfa_builder, nfa_bp, dfa_vars, det, re, walkers, input, nfa_call, dfa_call, panic>>

NFATrigger(trans) ==
    /\ pc = "walk"
    /\ nfa_auto' = NFAuto_trigger(nfa_bp, nfa_auto, trans)
    /\ last' = [op |-> "trigger", trans |-> trans, before |-> nfa_auto]
    /\ UNCHANGED <<pc, calls, nfa_builder, nfa_bp, dfa_vars, det, re, walkers, input, nfa_call, dfa_call, panic>>

InitNFA ==
    /\ pc = "build"
    /\ calls = 0
    /\ nfa_builder = NFAutoBuilder_start(0)
    /\ nfa_bp = NFAutoBuilder_finalize(NFAutoBuilder_start(0))
    /\ nfa_auto = [current_state_set |-> {}]
    /\ IdleDFA /\ IdleDet /\ IdleRe /\ IdleCalls
    /\ IdleWalkers
    /\ panic = "none"
    /\ last = NoLast

NextNFA ==
    \/ \E from \in States, trans \in WalkLabels, to \in States : NFAConnect(from, trans, to)
    \/ \E from \in States, to \in States : NFAConnectVoid(from, to)
    \/ \E from \in States, to \in States : NFAConnectWildcard(from, to)
    \/ \E state \in States : NFAAccept(state)
    \/ NFAFinalize
    \/ NFAIterate
    \/ NFACreate
    \/ \E trans \in WalkSymbols : NFATrigger(trans)

SpecNFA == InitNFA /\ [][NextNFA]_vars

\* ---- hand-built DFA: DFAutoBuilder::start(0), chained builder calls, a walker
DFABuilderCall(r) ==
    /\ calls' = calls + 1
    /\ IF r.panic # "none"
       THEN panic' = r.panic /\ pc' = "panicked" /\ UNCHANGED dfa_builder
       ELSE dfa_builder' = r.val /\ UNCHANGED <<pc, panic>>
    /\ UNCHANGED <<nfa_vars, dfa_bp, dfa_auto, det, re, walkers, input, nfa_call, dfa_call, last>>

DFAConnect(from, trans, to) ==
    /\ pc = "build" /\ calls < MaxCalls
    /\ DFANamed(from, to)
    /\ DFABuilderCall(DFAutoBuilder_connect(dfa_builder, from, trans, to))

DFAConnectFallback(from, to) ==
    /\ pc = "build" /\ calls < MaxCalls
    /\ DFANamed(from, to)
    /\ DFABuilderCall(DFAutoBuilder_connect_fallback(dfa_builder, from, to))

DFAAccept(state) ==
    /\ pc = "build" /\ calls < MaxCalls
    /\ DFANamed(state, state)
    /\ DFABuilderCall(Ok(DFAutoBuilder_accept(dfa_builder, state)))

DFAFinalize ==
    /\ pc = "build"
    /\ dfa_bp' = DFAutoBuilder_finalize(dfa_builder)
    /\ pc' = "dfa_blueprint"
    /\ UNCHANGED <<calls, nfa_vars, dfa_builder, dfa_auto, det, re, walkers, input,
                   nfa_call, dfa_call, panic, last>>

DFACreate ==
    /\ pc = "dfa_blueprint"
    /\ dfa_auto' = DFAutoBlueprint_create(dfa_bp)
    /\ pc' = "walk"
    /\ last' = [op |-> "create"]
    /\ UNCHANGED <<calls, nfa_vars, dfa_builder, dfa_bp, det, re, walkers, input,
                   nfa_call, dfa_call, panic>>

\* the caller collects the items of iterate_connections()
DFAIterate ==
    /\ pc = "dfa_blueprint"
    /\ last' = [op |-> "iterate_connections",
                items |-> DFAutoBlueprint_iterate_connections(dfa_bp)]
    /\ UNCHANGED <<pc, calls, nfa_vars, dfa_vars, det, re, walkers, input, nfa_call, dfa_call, panic>>

\* no test or search call is running on the DFA walker
DFAFree == dfa_call.pc = "returned"

DFATestTrigger(trans) ==
    /\ pc = "walk" /\ DFAFree
    /\ last' = [op |-> "test_trigger", trans |-> trans, before |-> dfa_auto,
                ret |-> DFAuto_test_trigger(dfa_bp, dfa_auto, trans)]
    /\ dfa_call' = NoCall
    /\ UNCHANGED <<pc, calls, nfa_vars, dfa_vars, det, re, walkers, input, nfa_call, panic>>

DFATrigger(trans) ==
    /\ pc = "walk" /\ DFAFree
    /\ LET r == DFAuto_trigger(dfa_bp, dfa_auto, trans)
       IN  IF r.panic # "none"
           THEN panic' = r.panic /\ pc' = "panicked" /\ UNCHANGED dfa_auto
           ELSE dfa_auto' = r.val /\ UNCHANGED <<pc, panic>>
    /\ last' = [op |-> "trigger", trans |-> trans, before |-> dfa_auto]
    /\ dfa_call' = NoCall
    /\ UNCHANGED <<calls, nfa_vars, dfa_builder, dfa_bp, det, re, walkers, input, nfa_call>>

\* the caller enters test or search with the walker as it is
DFAEnter(call) ==
    /\ pc = "walk" /\ DFAFree
    /\ dfa_call' = call
    /\ last' = [op |-> "enter"]
    /\ UNCHANGED <<pc, calls, nfa_vars, dfa_vars, det, re, walkers, input, nfa_call, panic>>

\* one iteration of the running call's for loop
DFALoopStep(r, trans) ==
    /\ IF r.panic # "none"
       THEN panic' = r.panic /\ pc' = "panicked" /\ UNCHANGED <<dfa_auto, dfa_call>>
       ELSE dfa_auto' = r.val.self /\ dfa_call' = r.val.call /\ UNCHANGED <<pc, panic>>
    /\ last' = [op |-> "next", trans |-> trans, before |-> dfa_auto]
    /\ UNCHANGED <<calls, nfa_vars, dfa_builder, dfa_bp, det, re, walkers, input, nfa_call>>

DFATestNext(trans) ==
    /\ pc = "walk" /\ dfa_call.fn = "test" /\ dfa_call.pc = "loop"
    /\ DFALoopStep(Auto_test_next("DFA", dfa_bp, dfa_auto, dfa_call, trans), trans)

DFASearchNext(trans) ==
    /\ pc = "walk" /\ dfa_call.fn = "search" /\ dfa_call.pc = "loop"
    /\ DFALoopStep(Auto_search_next("DFA", dfa_bp, dfa_auto, dfa_call, trans), trans)

DFATestEnd ==
    /\ pc = "walk" /\ dfa_call.fn = "test" /\ dfa_call.pc = "loop"
    /\ dfa_call' = Auto_test_end("DFA", dfa_bp, dfa_auto, dfa_call)
    /\ last' = [op |-> "end"]
    /\ UNCHANGED <<pc, calls, nfa_vars, dfa_vars, det, re, walkers, input, nfa_call, panic>>

DFASearchEnd ==
    /\ pc = "walk" /\ dfa_call.fn = "search" /\ dfa_call.pc = "loop"
    /\ dfa_call' = Auto_search_end("DFA", dfa_bp, dfa_auto, dfa_call)
    /\ last' = [op |-> "end"]
    /\ UNCHANGED <<pc, calls, nfa_vars, dfa_vars, det, re, walkers, input, nfa_call, panic>>

InitDFA ==
    /\ pc = "build"
    /\ calls = 0
    /\ IdleNFA /\ IdleDFA /\ IdleDet /\ IdleRe /\ IdleCalls
    /\ IdleWalkers
    /\ panic = "none"
    /\ last = NoLast

NextDFA ==
    \/ \E from \in States, trans \in WalkLabels, to \in States : DFAConnect(from, trans, to)
    \/ \E from \in States, to \in States : DFAConnectFallback(from, to)
    \/ \E state \in States : DFAAccept(state)
    \/ DFAFinalize
    \/ DFAIterate
    \/ DFACreate
    \/ \E trans \in WalkSymbols : DFATestTrigger(trans)
    \/ \E trans \in WalkSymbols : DFATrigger(trans)
    \/ DFAEnter(EnterTest)
    \/ DFAEnter(EnterSearch)
    \/ \E trans \in WalkSymbols : DFATestNext(trans)
    \/ \E trans \in WalkSymbols : DFASearchNext(trans)
    \/ DFATestEnd
    \/ DFASearchEnd

SpecDFA == InitDFA /\ [][NextDFA]_vars

\* ---- determinize(&nfa_bp), one iteration of its while loop per step
DetStart ==
    /\ pc = "nfa_blueprint"
    /\ det' = determinize_start(nfa_bp)
    /\ pc' = "det"
    /\ last' = [op |-> "det_start"]
    /\ UNCHANGED <<calls, nfa_vars, dfa_vars, re, walkers, input, nfa_call, dfa_call, panic>>

DetStep ==
    /\ pc = "det" /\ det.unresolved_state_set_list # <<>>
    /\ LET state_set == det.unresolved_state_set_list[Len(det.unresolved_state_set_list)]
       IN  /\ \E order \in Orders(DOMAIN aggregated_connections(nfa_bp, state_set)) :
                \E r \in {determinize_iteration(nfa_bp, det, order)} :
                    IF r.panic # "none"
                    THEN panic' = r.panic /\ pc' = "panicked" /\ UNCHANGED det
                    ELSE det' = r.val /\ UNCHANGED <<pc, panic>>
           /\ last' = [op |-> "det_step", state_set |-> state_set,
                       again |-> state_set \in det.resolved_state_set_set]
    /\ UNCHANGED <<calls, nfa_vars, dfa_vars, re, walkers, input, nfa_call, dfa_call>>

DetFinish ==
    /\ pc = "det" /\ det.unresolved_state_set_list = <<>>
    /\ dfa_bp' = DFAutoBuilder_finalize(det.builder)
    /\ pc' = "dfa_blueprint"
    /\ last' = [op |-> "det_finish"]
    /\ UNCHANGED <<calls, nfa_vars, dfa_builder, dfa_auto, det, re, walkers, input,
                   nfa_call, dfa_call, panic>>

InitDet == InitNFA

NextDet ==
    \/ \E from \in States, trans \in Labels, to \in States : NFAConnect(from, trans, to)
    \/ \E from \in States, to \in States : NFAConnectVoid(from, to)
    \/ \E from \in States, to \in States : NFAConnectWildcard(from, to)
    \/ \E state \in States : NFAAccept(state)
    \/ NFAFinalize
    \/ DetStart
    \/ DetStep
    \/ DetFinish

SpecDet == InitDet /\ [][NextDet]_vars

\* ---- N.create().test(seq) and determinize(N).create().test(seq), fed the
\* ---- same symbols one at a time
EquivStart ==
    /\ pc = "dfa_blueprint"
    /\ nfa_auto' = NFAutoBlueprint_create(nfa_bp)
    /\ dfa_auto' = DFAutoBlueprint_create(dfa_bp)
    /\ nfa_call' = EnterTest
    /\ dfa_call' = EnterTest
    /\ pc' = "test"
    /\ last' = [op |-> "enter"]
    /\ UNCHANGED <<calls, nfa_builder, nfa_bp, dfa_builder, dfa_bp, det, re, walkers, input, panic>>

EquivNext(trans) ==
    /\ pc = "test"
    /\ nfa_call.pc = "loop" \/ dfa_call.pc = "loop"
    /\ LET rn == IF nfa_call.pc = "loop"
                 THEN Auto_test_next("NFA", nfa_bp, nfa_auto, nfa_call, trans)
                 ELSE Ok([call |-> nfa_call, self |-> nfa_auto])
           rd == IF dfa_call.pc = "loop"
                 THEN Auto_test_next("DFA", dfa_bp, dfa_auto, dfa_call, trans)
                 ELSE Ok([call |-> dfa_call, self |-> dfa_auto])
       IN  IF rn.panic # "none" \/ rd.panic # "none"
           THEN /\ panic' = (IF rn.panic # "none" THEN rn.panic ELSE rd.panic)
                /\ pc' = "panicked"
                /\ UNCHANGED <<nfa_auto, dfa_auto, nfa_call, dfa_call>>
           ELSE /\ nfa_auto' = rn.val.self /\ nfa_call' = rn.val.call
                /\ dfa_auto' = rd.val.self /\ dfa_call' = rd.val.call
                /\ UNCHANGED <<pc, panic>>
    /\ last' = [op |-> "next", trans |-> trans]
    /\ UNCHANGED <<calls, nfa_builder, nfa_bp, dfa_builder, dfa_bp, det, re, walkers, input>>

EquivEnd ==
    /\ pc = "test"
    /\ nfa_call' = IF nfa_call.pc = "loop"
                   THEN Auto_test_end("NFA", nfa_bp, nfa_auto, nfa_call) ELSE nfa_call
    /\ dfa_call' = IF dfa_call.pc = "loop"
                   THEN Auto_test_end("DFA", dfa_bp, dfa_auto, dfa_call) ELSE dfa_call
    /\ pc' = "tested"
    /\ last' = [op |-> "end"]
    /\ UNCHANGED <<calls, nfa_vars, dfa_vars, det, re, walkers, input, panic>>

InitEquiv == InitNFA

NextEquiv ==
    \/ \E from \in States, trans \in Labels, to \in States : NFAConnect(from, trans, to)
    \/ \E from \in States, to \in States : NFAConnectVoid(from, to)
    \/ \E from \in States, to \in States : NFAConnectWildcard(from, to)
    \/ \E state \in States : NFAAccept(state)
    \/ NFAFinalize
    \/ DetStart
    \/ DetStep
    \/ DetFinish
    \/ EquivStart
    \/ \E trans \in Symbols : EquivNext(trans)
    \/ EquivEnd

SpecEquiv == InitEquiv /\ [][NextEquiv]_vars

\* ---- N.create() and determinize(N).create(), triggered with the same symbols
\* ---- for as long as the DFA walker's test_trigger allows; N is built from
\* ---- plain and void edges only
LockCreate ==
    /\ pc = "dfa_blueprint"
    /\ nfa_auto' = NFAutoBlueprint_create(nfa_bp)
    /\ dfa_auto' = DFAutoBlueprint_create(dfa_bp)
    /\ pc' = "lock"
    /\ last' = [op |-> "create"]
    /\ UNCHANGED <<calls, nfa_builder, nfa_bp, dfa_builder, dfa_bp, det, re, walkers, input,
                   nfa_call, dfa_call, panic>>

LockStep(trans) ==
    /\ pc = "lock"
    /\ nfa_auto' = NFAuto_trigger(nfa_bp, nfa_auto, trans)
    /\ IF DFAuto_test_trigger(dfa_bp, dfa_auto, trans)
       THEN LET r == DFAuto_trigger(dfa_bp, dfa_auto, trans)
            IN  IF r.panic # "none"
                THEN panic' = r.panic /\ pc' = "panicked" /\ UNCHANGED dfa_auto
                ELSE dfa_auto' = r.val /\ UNCHANGED <<pc, panic>>
       ELSE pc' = "blocked" /\ UNCHANGED <<dfa_auto, panic>>
    /\ last' = [op |-> "lockstep", trans |-> trans,
                ret |-> DFAuto_test_trigger(dfa_bp, dfa_auto, trans)]
    /\ UNCHANGED <<calls, nfa_builder, nfa_bp, dfa_builder, dfa_bp, det, re, walkers, input,
                   nfa_call, dfa_call>>

InitLock == InitNFA

NextLock ==
    \/ \E from \in States, trans \in Labels, to \in States : NFAConnect(from, trans, to)
    \/ \E from \in States, to \in States : NFAConnectVoid(from, to)
    \/ NFAFinalize
    \/ DetStart
    \/ DetStep
    \/ DetFinish
    \/ LockCreate
    \/ \E trans \in Symbols : LockStep(trans)

SpecLock == InitLock /\ [][NextLock]_vars

\* ---- the DFA of lib.rs: DFAutoBuilder::with_start_state(0), chained builder
\* ---- calls, finalize, create, and a walker that is tested and triggered
LibMentioned(b) ==
    {b.start_state} \cup b.accept_state_set \cup DOMAIN b.graph
      \cup UNION { { b.graph[f][t] : t \in DOMAIN b.graph[f] } : f \in DOMAIN b.graph }

LibNamed(from, to) ==
    /\ from \in Nameable(LibMentioned(dfa_builder))
    /\ to \in Nameable(LibMentioned(dfa_builder) \cup {from})

LibTrans(from, trans, to) ==
    /\ pc = "build" /\ calls < MaxCalls
    /\ LibNamed(from, to)
    /\ calls' = calls + 1
    /\ \E r \in {lib_DFAutoBuilder_trans(dfa_builder, from, trans, to)} :
          IF r.panic # "none"
          THEN panic' = r.panic /\ pc' = "panicked" /\ UNCHANGED dfa_builder
          ELSE dfa_builder' = r.val /\ UNCHANGED <<pc, panic>>
    /\ UNCHANGED <<nfa_vars, dfa_bp, dfa_auto, det, re, walkers, input, nfa_call, dfa_call, last>>

LibAccept(state) ==
    /\ pc = "build" /\ calls < MaxCalls
    /\ LibNamed(state, state)
    /\ calls' = calls + 1
    /\ dfa_builder' = lib_DFAutoBuilder_accept(dfa_builder, state)
    /\ UNCHANGED <<pc, nfa_vars, dfa_bp, dfa_auto, det, re, walkers, input, nfa_call,
                   dfa_call, panic, last>>

LibFinalize ==
    /\ pc = "build"
    /\ dfa_bp' = lib_DFAutoBuilder_finalize(dfa_builder)
    /\ pc' = "dfa_blueprint"
    /\ UNCHANGED <<calls, nfa_vars, dfa_builder, dfa_auto, det, re, walkers, input,
                   nfa_call, dfa_call, panic, last>>

LibCreate ==
    /\ pc = "dfa_blueprint"
    /\ dfa_auto' = lib_DFAutoBlueprint_create(dfa_bp)
    /\ pc' = "walk"
    /\ last' = [op |-> "create"]
    /\ UNCHANGED <<calls, nfa_vars, dfa_builder, dfa_bp, det, re, walkers, input,
                   nfa_call, dfa_call, panic>>

\* test_trigger(&trans): it returns a boolean or panics
LibTestTrigger(trans) ==
    /\ pc = "walk"
    /\ \E r \in {lib_DFAuto_test_trigger(dfa_bp, dfa_auto, trans)} :
          /\ last' = [op |-> "test_trigger", trans |-> trans, ret |-> r]
          /\ IF r.panic # "none"
             THEN panic' = r.panic /\ pc' = "panicked"
             ELSE UNCHANGED <<pc, panic>>
    /\ UNCHANGED <<calls, nfa_vars, dfa_vars, det, re, walkers, input, nfa_call, dfa_call>>

\* trigger(&trans), called after test_trigger(&trans) returned true
LibTrigger(trans) ==
    /\ pc = "walk"
    /\ last.op = "test_trigger" /\ last.trans = trans
    /\ last.ret.panic = "none" /\ last.ret.val
    /\ \E r \in {lib_DFAuto_trigger(dfa_bp, dfa_auto, trans)} :
          IF r.panic # "none"
          THEN panic' = r.panic /\ pc' = "panicked" /\ UNCHANGED dfa_auto
          ELSE dfa_auto' = r.val /\ UNCHANGED <<pc, panic>>
    /\ last' = [op |-> "trigger", trans |-> trans]
    /\ UNCHANGED <<calls, nfa_vars, dfa_builder, dfa_bp, det, re, walkers, input,
                   nfa_call, dfa_call>>

InitLib ==
    /\ pc = "build"
    /\ calls = 0
    /\ dfa_builder = lib_DFAutoBuilder_with_start_state(0)
    /\ dfa_bp = lib_DFAutoBuilder_finalize(lib_DFAutoBuilder_with_start_state(0))
    /\ dfa_auto = [current_state |-> 0]
    /\ IdleNFA /\ IdleDet /\ IdleRe /\ IdleCalls
    /\ IdleWalkers
    /\ panic = "none"
    /\ last = NoLast

NextLib ==
    \/ \E from \in States, trans \in Labels, to \in States : LibTrans(from, trans, to)
    \/ \E state \in States : LibAccept(state)
    \/ LibFinalize
    \/ LibCreate
    \/ \E trans \in Symbols : LibTestTrigger(trans)
    \/ \E trans \in Symbols : LibTrigger(trans)

SpecLib == InitLib /\ [][NextLib]_vars

\* ---- a regex AST is compiled and the walker of its NFA is fed symbols
ReCompile ==
    /\ pc = "ast"
    /\ nfa_bp' = RePriv_compile(re)
    /\ pc' = "nfa_blueprint"
    /\ last' = [op |-> "compile"]
    /\ UNCHANGED <<calls, nfa_builder, nfa_auto, dfa_vars, det, re, walkers, input,
                   nfa_call, dfa_call, panic>>

\* NFAuto::trigger, the symbol appended to input
ReTrigger(trans) ==
    /\ pc = "walk" /\ Len(input) < MaxLen
    /\ nfa_auto' = NFAuto_trigger(nfa_bp, nfa_auto, trans)
    /\ input' = Append(input, trans)
    /\ last' = [op |-> "trigger", trans |-> trans, before |-> nfa_auto]
    /\ UNCHANGED <<pc, calls, nfa_builder, nfa_bp, dfa_vars, det, re, walkers, nfa_call, dfa_call, panic>>

InitReWith(asts) ==
    /\ pc = "ast"
    /\ calls = 0
    /\ re \in asts
    /\ input = <<>>
    /\ IdleNFA /\ IdleDFA /\ IdleDet /\ IdleCalls
    /\ IdleWalkers
    /\ panic = "none"
    /\ last = NoLast

InitRe == InitReWith(UNION { ReOfSize(n) : n \in 1 .. MaxReSize } \cup {ABStarC, ABStarAnyCD})

NextRe ==
    \/ ReCompile
    \/ NFACreate
    \/ \E trans \in ReSymbols : ReTrigger(trans)

SpecRe == InitRe /\ [][NextRe]_vars

\* ---- a pattern of the tests is compiled and determinized, and test is run
\* ---- on the walker of the DFA
ReDFATestNext(trans) ==
    /\ pc = "walk" /\ dfa_call.fn = "test" /\ dfa_call.pc = "loop"
    /\ Len(input) < MaxLen
    /\ LET r == Auto_test_next("DFA", dfa_bp, dfa_auto, dfa_call, trans)
       IN  IF r.panic # "none"
           THEN panic' = r.panic /\ pc' = "panicked" /\ UNCHANGED <<dfa_auto, dfa_call>>
           ELSE dfa_auto' = r.val.self /\ dfa_call' = r.val.call /\ UNCHANGED <<pc, panic>>
    /\ input' = Append(input, trans)
    /\ last' = [op |-> "next", trans |-> trans, before |-> dfa_auto]
    /\ UNCHANGED <<calls, nfa_vars, dfa_builder, dfa_bp, det, re, walkers, nfa_call>>

InitReDet == InitReWith({ABStarC, ABStarAnyCD})

NextReDet ==
    \/ ReCompile
    \/ DetStart
    \/ DetStep
    \/ DetFinish
    \/ DFACreate
    \/ DFAEnter(EnterTest)
    \/ \E trans \in ReSymbols : ReDFATestNext(trans)
    \/ DFATestEnd

SpecReDet == InitReDet /\ [][NextReDet]_vars

\* ---- blueprint.create().test(iter) and blueprint.create().search(iter): on
\* ---- the NFA walker of a compiled pattern of the tests and on the walker of
\* ---- a hand-built DFA; input holds the items the iterator has yielded
CallCreate(kind, call) ==
    /\ IF kind = "NFA"
       THEN /\ pc = "nfa_blueprint"
            /\ nfa_auto' = NFAutoBlueprint_create(nfa_bp)
            /\ nfa_call' = call
            /\ UNCHANGED <<dfa_auto, dfa_call>>
       ELSE /\ pc = "dfa_blueprint"
            /\ dfa_auto' = DFAutoBlueprint_create(dfa_bp)
            /\ dfa_call' = call
            /\ UNCHANGED <<nfa_auto, nfa_call>>
    /\ pc' = "call"
    /\ input' = <<>>
    /\ last' = [op |-> "enter"]
    /\ UNCHANGED <<calls, nfa_builder, nfa_bp, dfa_builder, dfa_bp, det, re, walkers, panic>>

\* one iteration of the for loop of the running call
CallNext(kind, trans) ==
    /\ pc = "call" /\ Len(input) < MaxLen
    /\ LET blueprint == IF kind = "NFA" THEN nfa_bp ELSE dfa_bp
           self == IF kind = "NFA" THEN nfa_auto ELSE dfa_auto
           call == IF kind = "NFA" THEN nfa_call ELSE dfa_call
           r == IF call.fn = "test"
                THEN Auto_test_next(kind, blueprint, self, call, trans)
                ELSE Auto_search_next(kind, blueprint, self, call, trans)
       IN  /\ call.pc = "loop"
           /\ IF r.panic # "none"
              THEN /\ panic' = r.panic /\ pc' = "panicked"
                   /\ UNCHANGED <<nfa_auto, nfa_call, dfa_auto, dfa_call>>
              ELSE /\ UNCHANGED <<pc, panic>>
                   /\ IF kind = "NFA"
                      THEN /\ nfa_auto' = r.val.self /\ nfa_call' = r.val.call
                           /\ UNCHANGED <<dfa_auto, dfa_call>>
                      ELSE /\ dfa_auto' = r.val.self /\ dfa_call' = r.val.call
                           /\ UNCHANGED <<nfa_auto, nfa_call>>
    /\ input' = Append(input, trans)
    /\ last' = [op |-> "next", trans |-> trans]
    /\ UNCHANGED <<calls, nfa_builder, nfa_bp, dfa_builder, dfa_bp, det, re, walkers>>

\* the iterator of the running call is exhausted
CallEnd(kind) ==
    /\ pc = "call"
    /\ LET blueprint == IF kind = "NFA" THEN nfa_bp ELSE dfa_bp
           self == IF kind = "NFA" THEN nfa_auto ELSE dfa_auto
           call == IF kind = "NFA" THEN nfa_call ELSE dfa_call
           done == IF call.fn = "test"
                   THEN Auto_test_end(kind, blueprint, self, call)
                   ELSE Auto_search_end(kind, blueprint, self, call)
       IN  /\ call.pc = "loop"
           /\ IF kind = "NFA"
              THEN nfa_call' = done /\ UNCHANGED dfa_call
              ELSE dfa_call' = done /\ UNCHANGED nfa_call
    /\ last' = [op |-> "end"]
    /\ UNCHANGED <<pc, calls, nfa_builder, nfa_bp, nfa_auto, dfa_builder, dfa_bp, dfa_auto,
                   det, re, walkers, input, panic>>

InitCall == InitReWith({ABStarC, ABStarAnyCD}) \/ InitDFA

NextCall ==
    \/ ReCompile
    \/ \E from \in States, trans \in WalkLabels, to \in States : DFAConnect(from, trans, to)
    \/ \E from \in States, to \in States : DFAConnectFallback(from, to)
    \/ \E state \in States : DFAAccept(state)
    \/ DFAFinalize
    \/ \E kind \in {"NFA", "DFA"}, call \in {EnterTest, EnterSearch} : CallCreate(kind, call)
    \/ \E trans \in ReSymbols : CallNext("NFA", trans)
    \/ \E trans \in WalkSymbols : CallNext("DFA", trans)
    \/ \E kind \in {"NFA", "DFA"} : CallEnd(kind)

SpecCall == InitCall /\ [][NextCall]_vars

\* ---- the DFA of tests::trigger_fallback and a walker fed symbols
FallbackLabels == <<"0 -> 1", "1 -> 2", "2 -> 3">>
FallbackSymbols == {"0 -> 1", "1 -> 2", "2 -> 3", "error"}

TriggerFallbackDFA ==
    LET b1 == DFAutoBuilder_connect(DFAutoBuilder_start(0), 0, "0 -> 1", 1).val
        b2 == DFAutoBuilder_connect(b1, 1, "1 -> 2", 2).val
        b3 == DFAutoBuilder_connect(b2, 2, "2 -> 3", 3).val
        b4 == DFAutoBuilder_accept(b3, 3)
        b5 == DFAutoBuilder_connect_fallback(b4, 0, 0).val
        b6 == DFAutoBuilder_connect_fallback(b5, 1, 0).val
        b7 == DFAutoBuilder_connect_fallback(b6, 2, 0).val
        b8 == DFAutoBuilder_connect_fallback(b7, 3, 3).val
    IN  [builder |-> b8, blueprint |-> DFAutoBuilder_finalize(b8)]

\* the body of the loop of the test: test_trigger, then trigger
FallbackStep(trans) ==
    /\ pc = "walk" /\ Len(input) < MaxWalk
    /\ LET r == DFAuto_trigger(dfa_bp, dfa_auto, trans)
       IN  IF r.panic # "none"
           THEN panic' = r.panic /\ pc' = "panicked" /\ UNCHANGED dfa_auto
           ELSE dfa_auto' = r.val /\ UNCHANGED <<pc, panic>>
    /\ input' = Append(input, trans)
    /\ last' = [op |-> "step", trans |-> trans, before |-> dfa_auto,
                ret |-> DFAuto_test_trigger(dfa_bp, dfa_auto, trans)]
    /\ UNCHANGED <<calls, nfa_vars, dfa_builder, dfa_bp, det, re, walkers, nfa_call, dfa_call>>

InitFallback ==
    /\ pc = "dfa_blueprint"
    /\ calls = 8
    /\ IdleNFA /\ IdleDet /\ IdleRe /\ IdleCalls
    /\ dfa_builder = TriggerFallbackDFA.builder
    /\ dfa_bp = TriggerFallbackDFA.blueprint
    /\ dfa_auto = [current_state |-> 0]
    /\ IdleWalkers
    /\ panic = "none"
    /\ last = NoLast

NextFallback ==
    \/ DFACreate
    \/ \E trans \in FallbackSymbols : FallbackStep(trans)

SpecFallback == InitFallback /\ [][NextFallback]_vars

\* ---- several walkers created from one blueprint, as in tests::auto_trait_test:
\* ---- the NFA of (a|b)*c or the DFA of tests::trigger_fallback; a walker is
\* ---- kept with its type (kind) and the symbols it was triggered with
NumWalkers == 2

SharedBlueprint(kind) == IF kind = "NFA" THEN nfa_bp ELSE dfa_bp
SharedSymbols(kind) == IF kind = "NFA" THEN ReSymbols ELSE FallbackSymbols

SharedCreate(kind) ==
    /\ Len(walkers) < NumWalkers
    /\ IF walkers = <<>>
       THEN pc = (IF kind = "NFA" THEN "nfa_blueprint" ELSE "dfa_blueprint")
       ELSE pc = "shared" /\ walkers[1].kind = kind
    /\ walkers' = Append(walkers,
                     [kind |-> kind,
                      auto |-> IF kind = "NFA" THEN NFAutoBlueprint_create(nfa_bp)
                               ELSE DFAutoBlueprint_create(dfa_bp),
                      input |-> <<>>])
    /\ pc' = "shared"
    /\ last' = [op |-> "create", walker |-> Len(walkers) + 1]
    /\ UNCHANGED <<calls, nfa_vars, dfa_vars, det, re, input, nfa_call, dfa_call, panic>>

\* a trigger that moves every walker of the blueprint, as if the current
\* state were kept in the blueprint
SharedTrigger_every_walker(i, trans) ==
    /\ pc = "shared" /\ i \in 1 .. Len(walkers)
    /\ trans \in SharedSymbols(walkers[i].kind)
    /\ Len(walkers[i].input) < MaxShared
    /\ walkers' = [j \in 1 .. Len(walkers) |->
                     [kind |-> walkers[j].kind,
                      auto |-> LET r == Auto_trigger(walkers[j].kind,
                                                     SharedBlueprint(walkers[j].kind),
                                                     walkers[j].auto, trans)
                               IN  IF r.panic # "none" THEN walkers[j].auto ELSE r.val,
                      input |-> IF j = i THEN Append(walkers[j].input, trans)
                                ELSE walkers[j].input]]
    /\ last' = [op |-> "trigger", walker |-> i]
    /\ UNCHANGED <<pc, calls, nfa_vars, dfa_vars, det, re, input, nfa_call, dfa_call, panic>>

\* an operation of walker i that takes &mut self
SharedTrigger(i, trans) ==
    /\ pc = "shared" /\ i \in 1 .. Len(walkers)
    /\ trans \in SharedSymbols(walkers[i].kind)
    /\ Len(walkers[i].input) < MaxShared
    /\ LET r == Auto_trigger(walkers[i].kind, SharedBlueprint(walkers[i].kind),
                             walkers[i].auto, trans)
       IN  IF r.panic # "none"
           THEN panic' = r.panic /\ pc' = "panicked" /\ UNCHANGED walkers
           ELSE /\ walkers' = [walkers EXCEPT ![i].auto = r.val,
                                              ![i].input = Append(@, trans)]
                /\ UNCHANGED <<pc, panic>>
    /\ last' = [op |-> "trigger", walker |-> i]
    /\ UNCHANGED <<calls, nfa_vars, dfa_vars, det, re, input, nfa_call, dfa_call>>

\* the operations of walker i that take &self
SharedTestTrigger(i, trans) ==
    /\ pc = "shared" /\ i \in 1 .. Len(walkers)
    /\ trans \in SharedSymbols(walkers[i].kind)
    /\ last' = [op |-> "test_trigger", walker |-> i,
                ret |-> Auto_test_trigger(walkers[i].kind, SharedBlueprint(walkers[i].kind),
                                          walkers[i].auto, trans)]
    /\ UNCHANGED <<pc, calls, nfa_vars, dfa_vars, det, re, walkers, input,
                   nfa_call, dfa_call, panic>>

SharedIsAccepted(i) ==
    /\ pc = "shared" /\ i \in 1 .. Len(walkers)
    /\ last' = [op |-> "is_accepted", walker |-> i,
                ret |-> Auto_is_accepted(walkers[i].kind, SharedBlueprint(walkers[i].kind),
                                         walkers[i].auto)]
    /\ UNCHANGED <<pc, calls, nfa_vars, dfa_vars, det, re, walkers, input,
                   nfa_call, dfa_call, panic>>

InitShared == InitReWith({ABStarC}) \/ InitFallback

NextShared ==
    \/ ReCompile
    \/ \E kind \in {"NFA", "DFA"} : SharedCreate(kind)
    \/ \E i \in 1 .. NumWalkers, trans \in ReSymbols \cup FallbackSymbols : SharedTrigger(i, trans)
    \/ \E i \in 1 .. NumWalkers, trans \in ReSymbols \cup FallbackSymbols :
          SharedTestTrigger(i, trans)
    \/ \E i \in 1 .. NumWalkers : SharedIsAccepted(i)

SpecShared == InitShared /\ [][NextShared]_vars

\* ------------------------------------------------------------------ reference notions
\* (stated over the edges of a blueprint, not over the walker's code)
PlainEdge(bp, s, l, t) ==
    s \in DOMAIN bp.graph /\ l \in DOMAIN bp.graph[s] /\ t \in bp.graph[s][l]
VoidEdge(bp, s, t) == s \in DOMAIN bp.void_graph /\ t \in bp.void_graph[s]
WildcardEdge(bp, s, t) == s \in DOMAIN bp.wildcard_graph /\ t \in bp.wildcard_graph[s]

\* every destination of a void edge leaving a member is a member
VoidClosed(bp, X) == \A s \in X : s \in DOMAIN bp.void_graph => bp.void_graph[s] \subseteq X

\* the least void-closed set that contains X: X and the states that belong to
\* every void-closed set containing X
EpsClosure(bp, X) ==
    LET closed == { Y \in SUBSET (States \ X) : VoidClosed(bp, X \cup Y) }
    IN  X \cup { t \in States \ X : \A Y \in closed : t \in Y }

\* the states one symbol leads to from X, before closing
MoveOn(bp, X, l) ==
    { t \in States : \E s \in X : PlainEdge(bp, s, l, t) \/ WildcardEdge(bp, s, t) }

\* ------------------------------------------------------------------ claims on the NFA walker
\* C5: once an NFA walker is dead (its current state set is empty), every
\* further trigger leaves it dead, and is_accepted() stays false.
C5_DeadStaysDead ==
    (pc = "walk" /\ last.op = "trigger" /\ NFAuto_is_dead(last.before))
        => (NFAuto_is_dead(nfa_auto) /\ ~NFAuto_is_accepted(nfa_bp, nfa_auto))

\* a dead walker was triggered, in an NFA that has edges and an accept state
C5_Witness ==
    /\ pc = "walk" /\ last.op = "trigger" /\ NFAuto_is_dead(last.before)
    /\ nfa_bp.accept_state_set # {}
    /\ nfa_bp.graph # EmptyMap
    /\ nfa_bp.wildcard_graph # EmptyMap

\* C6: trigger(label) sets the current state set to the epsilon closure of the
\* union, over the states held, of the plain destinations of (s, label) and
\* the wildcard destinations of s, whatever the label is.
C6_TriggerIsClosureOfMove ==
    (pc = "walk" /\ last.op = "trigger")
        => nfa_auto.current_state_set
             = EpsClosure(nfa_bp, MoveOn(nfa_bp, last.before.current_state_set, last.trans))

\* a held state had a plain edge for the label and a wildcard edge to another
\* state, and a void edge extended the result
C6_Witness ==
    /\ pc = "walk" /\ last.op = "trigger"
    /\ \E s \in last.before.current_state_set, t \in States, u \in States, v \in States :
          /\ PlainEdge(nfa_bp, s, last.trans, t)
          /\ WildcardEdge(nfa_bp, s, u) /\ u # t
          /\ VoidEdge(nfa_bp, u, v) /\ v \notin {t, u}
          /\ {t, u, v} \subseteq nfa_auto.current_state_set

\* C7: in every state of an NFA walker, after create() and after any sequence
\* of trigger calls, the current state set is epsilon-closed.
C7_CurrentSetVoidClosed ==
    (pc = "walk") => VoidClosed(nfa_bp, nfa_auto.current_state_set)

\* after a trigger the walker holds a state reached only through two void edges
C7_Witness ==
    /\ pc = "walk" /\ last.op = "trigger"
    /\ \E t \in States, u \in States, v \in States :
          /\ t \in MoveOn(nfa_bp, last.before.current_state_set, last.trans)
          /\ VoidEdge(nfa_bp, t, u) /\ VoidEdge(nfa_bp, u, v)
          /\ Cardinality({t, u, v}) = 3
          /\ ~VoidEdge(nfa_bp, t, v)
          /\ v \in nfa_auto.current_state_set

\* C8: create().current_state_set() is the epsilon closure of {start}; the
\* closure is idempotent (closing a closed set returns it, closing twice is
\* closing once); and the walker's closure loop and algo's extend_state_set
\* compute the same set for every input set.
C8_CreateIsClosure ==
    (pc = "walk" /\ last.op = "create")
        => /\ nfa_auto.current_state_set = EpsClosure(nfa_bp, {nfa_bp.start_state})
           /\ \A X \in SUBSET States :
                LET closure == extend_state_set(nfa_bp, X)
                IN  /\ closure = EpsClosure(nfa_bp, X)
                    /\ extend_state_set(nfa_bp, closure) = closure
                    /\ VoidClosed(nfa_bp, X) => closure = X
                    /\ extend_current_state_set(nfa_bp, X) = closure

\* a walker was created whose start state reaches another state only through
\* two void edges
C8_Witness ==
    /\ pc = "walk" /\ last.op = "create"
    /\ \E u \in States, v \in States :
          /\ Cardinality({nfa_bp.start_state, u, v}) = 3
          /\ VoidEdge(nfa_bp, nfa_bp.start_state, u) /\ VoidEdge(nfa_bp, u, v)
          /\ ~VoidEdge(nfa_bp, nfa_bp.start_state, v)
          /\ nfa_auto.current_state_set = {nfa_bp.start_state, u, v}

\* ------------------------------------------------------------------ claims on the DFA walker
\* the plain table has (s, l); the fallback table has an entry for s
HasPlain(bp, s, l) == s \in DOMAIN bp.graph /\ l \in DOMAIN bp.graph[s]
HasFallback(bp, s) == s \in DOMAIN bp.fallback_graph
Legal(bp, s, l) == HasPlain(bp, s, l) \/ HasFallback(bp, s)

\* C9: a DFA trigger(label) moves to the plain destination of (current_state,
\* label) whenever that plain edge exists, also when the state has a fallback
\* edge; the fallback destination is taken only when no plain edge exists.
C9_PlainBeforeFallback ==
    (pc = "walk" /\ last.op = "trigger")
        => LET s == last.before.current_state
           IN  IF HasPlain(dfa_bp, s, last.trans)
               THEN dfa_auto.current_state = dfa_bp.graph[s][last.trans]
               ELSE /\ HasFallback(dfa_bp, s)
                    /\ dfa_auto.current_state = dfa_bp.fallback_graph[s]

\* a trigger took the plain edge of a state whose fallback edge leads elsewhere
C9_Witness ==
    /\ pc = "walk" /\ last.op = "trigger"
    /\ HasPlain(dfa_bp, last.before.current_state, last.trans)
    /\ HasFallback(dfa_bp, last.before.current_state)
    /\ dfa_bp.fallback_graph[last.before.current_state]
          # dfa_bp.graph[last.before.current_state][last.trans]
    /\ dfa_auto.current_state = dfa_bp.graph[last.before.current_state][last.trans]

\* C10: test_trigger(label) is true iff the plain table has (current_state,
\* label) or the fallback table has current_state, and leaves the walker as it
\* was; trigger(label) panics exactly when test_trigger(label) is false; test
\* and search never panic on a DFA walker.
C10_TestTriggerGuardsTrigger ==
    /\ last.op = "test_trigger"
          => /\ last.ret <=> Legal(dfa_bp, last.before.current_state, last.trans)
             /\ dfa_auto = last.before
             /\ pc = "walk"
    /\ last.op = "trigger"
          => ((pc = "panicked") <=> ~Legal(dfa_bp, last.before.current_state, last.trans))
    /\ last.op \in {"enter", "next", "end"} => (pc = "walk" /\ panic = "none")

\* a test call that had moved the walker met a symbol with neither a plain
\* nor a fallback edge, in a state that has a plain edge, and returned false
C10_Witness ==
    /\ pc = "walk" /\ last.op = "next"
    /\ dfa_call.fn = "test" /\ dfa_call.pc = "returned" /\ ~dfa_call.ret
    /\ last.before.current_state # dfa_bp.start_state
    /\ last.before.current_state \in DOMAIN dfa_bp.graph
    /\ ~Legal(dfa_bp, last.before.current_state, last.trans)
    /\ dfa_auto = last.before

\* ------------------------------------------------------------------ claims on determinize
\* C1: for any NFA blueprint N and any finite symbol sequence seq,
\* N.create().test(seq) equals determinize(N).create().test(seq).
C1_TestAgrees ==
    (pc = "tested") => (nfa_call.ret = dfa_call.ret)

\* C4: determinize never raises the duplicated-transition or the
\* duplicated-fallback construction error, also when a state set is taken
\* from the work list more than once.
C4_NoConstructionError ==
    pc # "panicked" /\ panic = "none"

\* a state set that was already resolved was popped and resolved again, and it
\* has a plain edge and a fallback edge in the DFA under construction
C4_Witness ==
    /\ pc = "det" /\ last.op = "det_step" /\ last.again
    /\ last.state_set \in DOMAIN det.builder.graph
    /\ last.state_set \in DOMAIN det.builder.fallback_graph

\* ------------------------------------------------------------------ claims on the regex compiler
\* the language of a regex AST
RECURSIVE Matches(_, _)
Matches(r, seq) ==
    CASE r.op = "Plain" -> seq = <<r.trans>>
      [] r.op = "Wildcard" -> Len(seq) = 1
      [] r.op = "Concat" ->
            \E i \in 0 .. Len(seq) :
                /\ Matches(r.first, SubSeq(seq, 1, i))
                /\ Matches(r.second, SubSeq(seq, i + 1, Len(seq)))
      [] r.op = "Either" -> Matches(r.first, seq) \/ Matches(r.second, seq)
      [] r.op = "ZeroOrMore" ->
            \/ seq = <<>>
            \/ \E i \in 1 .. Len(seq) :
                  /\ Matches(r.inner, SubSeq(seq, 1, i))
                  /\ Matches(r, SubSeq(seq, i + 1, Len(seq)))

\* seq[1..n] consists of a and b only
OnlyAB(seq, n) == \A i \in 1 .. n : seq[i] \in {"a", "b"}

\* C2: the walker of the compiled NFA is accepted after consuming seq iff seq
\* belongs to the language of the regex; for (a|b)*c the walker is alive and
\* not accepted after every string of a/b, accepted after the closing c, and
\* dead after any further symbol.
C2_CompiledNFAAcceptsLanguage ==
    (pc = "walk")
        => /\ NFAuto_is_accepted(nfa_bp, nfa_auto) <=> Matches(re, input)
           /\ (re = ABStarC /\ OnlyAB(input, Len(input)))
                 => (~NFAuto_is_dead(nfa_auto) /\ ~NFAuto_is_accepted(nfa_bp, nfa_auto))
           /\ (re = ABStarC /\ Len(input) >= 1 /\ OnlyAB(input, Len(input) - 1)
                 /\ input[Len(input)] = "c")
                 => NFAuto_is_accepted(nfa_bp, nfa_auto)
           /\ (re = ABStarC /\ Len(input) >= 2 /\ OnlyAB(input, Len(input) - 2)
                 /\ input[Len(input) - 1] = "c")
                 => NFAuto_is_dead(nfa_auto)

\* the walker of (a|b)*c consumed a, b and the closing c and is accepted
C2_Witness ==
    /\ pc = "walk" /\ re = ABStarC
    /\ input = <<"a", "b", "c">>
    /\ NFAuto_is_accepted(nfa_bp, nfa_auto)

\* the language of (a|b)*.(c|d): any number of a/b, one arbitrary symbol,
\* then c or d
InABStarAnyCD(seq) ==
    /\ Len(seq) >= 2
    /\ OnlyAB(seq, Len(seq) - 2)
    /\ seq[Len(seq)] \in {"c", "d"}

\* C3: for (a|b)*.(c|d) compiled and determinized, the DFA walker's test(seq)
\* returns true exactly for the sequences made of any number of a/b, then one
\* arbitrary symbol, then c or d.
C3_DeterminizedTestIsLanguage ==
    (pc = "walk" /\ re = ABStarAnyCD /\ dfa_call.fn = "test"
        /\ dfa_call.pc = "returned" /\ last.op = "end")
        => (dfa_call.ret <=> InABStarAnyCD(input))

\* ------------------------------------------------------------------ claims on the DFA builder
\* C11: connect(from, label, to) panics iff (from, label) is already
\* registered with a different destination, and connect_fallback(from, to)
\* panics iff from already has a different fallback destination; registering
\* the same destination again, and repeating accept(state), leave the builder
\* equal to what it was before the call.
C11_ConflictIffDifferentDestination ==
    [][ /\ \A from \in States, trans \in WalkLabels, to \in States :
              DFAConnect(from, trans, to)
                 => /\ (pc' = "panicked")
                          <=> (HasPlain(dfa_builder, from, trans)
                                 /\ dfa_builder.graph[from][trans] # to)
                    /\ pc' = "panicked"
                          => (panic' = "duplicated transition" /\ dfa_builder' = dfa_builder)
                    /\ (HasPlain(dfa_builder, from, trans)
                          /\ dfa_builder.graph[from][trans] = to)
                          => dfa_builder' = dfa_builder
                    /\ pc' # "panicked" => dfa_builder'.graph[from][trans] = to
        /\ \A from \in States, to \in States :
              DFAConnectFallback(from, to)
                 => /\ (pc' = "panicked")
                          <=> (HasFallback(dfa_builder, from)
                                 /\ dfa_builder.fallback_graph[from] # to)
                    /\ pc' = "panicked"
                          => (panic' = "duplicated fallback transition"
                                 /\ dfa_builder' = dfa_builder)
                    /\ (HasFallback(dfa_builder, from)
                          /\ dfa_builder.fallback_graph[from] = to)
                          => dfa_builder' = dfa_builder
                    /\ pc' # "panicked" => dfa_builder'.fallback_graph[from] = to
        /\ \A state \in States :
              DFAAccept(state)
                 => /\ pc' = "build"
                    /\ state \in dfa_builder.accept_state_set => dfa_builder' = dfa_builder
                    /\ dfa_builder'.accept_state_set = dfa_builder.accept_state_set \cup {state}
      ]_vars

\* a builder that holds one fallback edge and nothing else after two calls
\* panicked in its third call: the edge was registered, registered again with
\* the same destination, then with a different one
C11_Witness ==
    /\ pc = "panicked" /\ panic = "duplicated fallback transition"
    /\ calls = 3
    /\ DOMAIN dfa_builder.graph = {}
    /\ dfa_builder.accept_state_set = {}
    /\ Cardinality(DOMAIN dfa_builder.fallback_graph) = 1

\* ------------------------------------------------------------------ claims on test and search
\* the running call: its walker kind, blueprint, walker and call record
CallKind == IF nfa_call.fn # "none" THEN "NFA" ELSE "DFA"
CallBlueprint == IF CallKind = "NFA" THEN nfa_bp ELSE dfa_bp
CallSelf == IF CallKind = "NFA" THEN nfa_auto ELSE dfa_auto
CallRecord == IF CallKind = "NFA" THEN nfa_call ELSE dfa_call

\* the walker at prefix boundary k of seq: a fresh walker after trigger on
\* each of the first k symbols
RECURSIVE After(_, _, _, _)
After(kind, bp, seq, k) ==
    IF k = 0
    THEN IF kind = "NFA" THEN NFAutoBlueprint_create(bp) ELSE DFAutoBlueprint_create(bp)
    ELSE LET prev == After(kind, bp, seq, k - 1)
             r == Auto_trigger(kind, bp, prev, seq[k])
         IN  IF r.panic # "none" THEN prev ELSE r.val

\* test_trigger is false on symbol k of seq at boundary k - 1
Blocks(kind, bp, seq, k) ==
    ~Auto_test_trigger(kind, bp, After(kind, bp, seq, k - 1), seq[k])

\* no test_trigger fails on the first m symbols
Unblocked(kind, bp, seq, m) == \A k \in 1 .. m : ~Blocks(kind, bp, seq, k)

AcceptedAt(kind, bp, seq, k) == Auto_is_accepted(kind, bp, After(kind, bp, seq, k))

\* C12: test(sequence) calls test_trigger before each symbol in order; at the
\* first symbol whose test_trigger is false it returns false without
\* triggering that symbol or any later one; if no test_trigger fails it
\* triggers every symbol in order and returns is_accepted() of the final state.
C12_TestShortCircuits ==
    (pc = "call" /\ CallRecord.fn = "test")
        => LET kind == CallKind
               bp == CallBlueprint
               n == Len(input)
           IN  IF CallRecord.pc = "loop" \/ last.op = "end"
               THEN /\ Unblocked(kind, bp, input, n)
                    /\ CallSelf = After(kind, bp, input, n)
                    /\ CallRecord.pc = "returned"
                          => (CallRecord.ret <=> AcceptedAt(kind, bp, input, n))
               ELSE /\ last.op = "next" /\ n >= 1
                    /\ Unblocked(kind, bp, input, n - 1)
                    /\ Blocks(kind, bp, input, n)
                    /\ CallSelf = After(kind, bp, input, n - 1)
                    /\ ~CallRecord.ret

\* test on a DFA walker returned false at a symbol with no edge, after it had
\* moved the walker into an accept state
C12_Witness ==
    /\ pc = "call" /\ dfa_call.fn = "test" /\ dfa_call.pc = "returned"
    /\ last.op = "next" /\ Len(input) >= 2
    /\ ~dfa_call.ret
    /\ dfa_auto.current_state # dfa_bp.start_state
    /\ DFAuto_is_accepted(dfa_bp, dfa_auto)

\* C13: search(sequence) returns true iff is_accepted() holds at some prefix
\* boundary reached during the scan: at the initial state, or after
\* triggering the first k symbols for some k such that no test_trigger failed
\* on those k symbols; it returns false otherwise, also when the walker blocks
\* before any accepting boundary.
C13_SearchIsAcceptanceAtSomeBoundary ==
    (pc = "call" /\ CallRecord.fn = "search" /\ CallRecord.pc = "returned")
        => LET kind == CallKind
               bp == CallBlueprint
               n == Len(input)
               \* the boundaries reached: the last symbol yielded was not
               \* triggered when the call returned from inside the loop
               reached == IF last.op = "end" THEN n ELSE n - 1
           IN  /\ Unblocked(kind, bp, input, reached)
               /\ last.op = "next" => Blocks(kind, bp, input, n)
               /\ CallRecord.ret <=> \E k \in 0 .. reached : AcceptedAt(kind, bp, input, k)

\* search on a DFA walker returned true when it met a symbol with no edge in
\* a state that is not accepting: acceptance was seen at an earlier boundary
C13_Witness ==
    /\ pc = "call" /\ dfa_call.fn = "search" /\ dfa_call.pc = "returned"
    /\ last.op = "next" /\ Len(input) >= 2
    /\ dfa_call.ret
    /\ ~DFAuto_is_accepted(dfa_bp, dfa_auto)

\* C14: search(sequence) returns true as soon as acceptance has been observed:
\* once is_accepted() holds at a prefix boundary, no later symbol of the
\* sequence is passed to test_trigger or trigger (input holds the symbols
\* passed to test_trigger so far), and the walker is left in the state of that
\* first accepting boundary.
C14_SearchReturnsAtFirstAcceptance ==
    (pc = "call" /\ CallRecord.fn = "search")
        => LET kind == CallKind
               bp == CallBlueprint
               n == Len(input)
           IN  /\ \A k \in 0 .. (n - 1) :
                     Unblocked(kind, bp, input, k) => ~AcceptedAt(kind, bp, input, k)
               /\ (CallRecord.pc = "returned" /\ CallRecord.ret)
                     => \E k \in 0 .. n :
                           /\ AcceptedAt(kind, bp, input, k)
                           /\ \A j \in 0 .. (k - 1) : ~AcceptedAt(kind, bp, input, j)
                           /\ CallSelf = After(kind, bp, input, k)

\* ------------------------------------------------------------------ claims on iterate_connections
\* the number of items of seq equal to x
Count(seq, x) == Cardinality({ i \in 1 .. Len(seq) : seq[i] = x })

\* the plain transitions of a DFA blueprint, as items
DFAPlainItems(bp) ==
    { [from |-> e[1], trans |-> e[2], to |-> bp.graph[e[1]][e[2]]] :
         e \in { e \in States \X WalkLabels : HasPlain(bp, e[1], e[2]) } }

\* C15: the transition iterator of a finalized DFA blueprint yields every
\* transition registered with the builder exactly once, the fallback
\* transitions registered by connect_fallback included, and nothing else.
C15_DFAIteratorYieldsEveryTransition ==
    (pc = "dfa_blueprint" /\ last.op = "iterate_connections")
        => /\ \A x \in DFAPlainItems(dfa_bp) : Count(last.items, x) = 1
           /\ \A s \in DOMAIN dfa_bp.fallback_graph :
                 \E i \in 1 .. Len(last.items) :
                    /\ last.items[i].from = s
                    /\ last.items[i].to = dfa_bp.fallback_graph[s]
                    /\ last.items[i] \notin DFAPlainItems(dfa_bp)
           /\ Len(last.items) = Cardinality(DFAPlainItems(dfa_bp))
                                   + Cardinality(DOMAIN dfa_bp.fallback_graph)

\* the items the iterator of the blueprint of builder b yields
NFAItems(b) == NFAutoBlueprint_iterate_connections(NFAutoBuilder_finalize(b))
ItemSet(seq) == { seq[i] : i \in 1 .. Len(seq) }
NoDuplicate(seq) == Cardinality(ItemSet(seq)) = Len(seq)

\* a builder call that registers edge adds it, and nothing else, to what the
\* iterator yields, leaves start state and accept set alone and does not fail
Registers(edge) ==
    /\ pc' = "build" /\ panic' = "none"
    /\ \A after \in {NFAItems(nfa_builder')}, before \in {NFAItems(nfa_builder)} :
          /\ NoDuplicate(after)
          /\ ItemSet(after) = ItemSet(before) \cup {edge}
    /\ nfa_builder'.start_state = nfa_builder.start_state
    /\ nfa_builder'.accept_state_set = nfa_builder.accept_state_set

\* C16: for any sequence of connect, connect_void, connect_wildcard and accept
\* calls on an NFA builder followed by finalize, iterate_connections yields
\* exactly the set of distinct (from, kind, to) edges registered, each once: a
\* repeated identical registration adds nothing and never fails, and the
\* start state and accept set are those given.  Stated call by call: a fresh
\* builder yields nothing, each call adds its edge or accept state and nothing
\* else, finalize keeps all of it.
C16_NFAIteratorYieldsRegisteredEdges ==
    [][ /\ (pc = "build" /\ calls = 0)
              => /\ NFAItems(nfa_builder) = <<>>
                 /\ nfa_builder.accept_state_set = {}
                 /\ nfa_builder.start_state = 0
        /\ (pc = "build" /\ pc' = "build")
              => /\ \A from \in States, trans \in WalkLabels, to \in States :
                       (/\ nfa_builder' = NFAutoBuilder_connect(nfa_builder, from, trans, to)
                        /\ NFAConnect(from, trans, to))
                          => Registers([from |-> from, conn |-> ConnType_Plain(trans), to |-> to])
                 /\ \A from \in States, to \in States :
                       (/\ nfa_builder' = NFAutoBuilder_connect_void(nfa_builder, from, to)
                        /\ NFAConnectVoid(from, to))
                          => Registers([from |-> from, conn |-> ConnType_Void, to |-> to])
                 /\ \A from \in States, to \in States :
                       (/\ nfa_builder' = NFAutoBuilder_connect_wildcard(nfa_builder, from, to)
                        /\ NFAConnectWildcard(from, to))
                          => Registers([from |-> from, conn |-> ConnType_Wildcard, to |-> to])
                 /\ \A state \in States :
                       (/\ nfa_builder' = NFAutoBuilder_accept(nfa_builder, state)
                        /\ NFAAccept(state))
                          => /\ panic' = "none"
                             /\ NFAItems(nfa_builder') = NFAItems(nfa_builder)
                             /\ nfa_builder'.start_state = nfa_builder.start_state
                             /\ nfa_builder'.accept_state_set
                                   = nfa_builder.accept_state_set \cup {state}
        /\ (pc = "build" /\ pc' # "build")
              => /\ pc' = "nfa_blueprint" /\ panic' = "none"
                 /\ NFAFinalize
                 /\ nfa_bp'.start_state = nfa_builder.start_state
                 /\ nfa_bp'.accept_state_set = nfa_builder.accept_state_set
        /\ (pc = "nfa_blueprint" /\ NFAIterate)
              => /\ NoDuplicate(last'.items)
                 /\ \A yielded \in {ItemSet(last'.items)} :
                       /\ yielded = ItemSet(NFAItems(nfa_builder))
                       /\ \A s \in States, t \in States :
                             /\ VoidEdge(nfa_bp, s, t)
                                   <=> [from |-> s, conn |-> ConnType_Void, to |-> t] \in yielded
                             /\ WildcardEdge(nfa_bp, s, t)
                                   <=> [from |-> s, conn |-> ConnType_Wildcard, to |-> t] \in yielded
                             /\ \A l \in WalkLabels :
                                   PlainEdge(nfa_bp, s, l, t)
                                      <=> [from |-> s, conn |-> ConnType_Plain(l), to |-> t]
                                             \in yielded
      ]_vars

\* the iterator yielded two edges of different kinds after three registrations:
\* one of the calls repeated an earlier one
C16_Witness ==
    /\ pc = "nfa_blueprint" /\ last.op = "iterate_connections"
    /\ calls = 3
    /\ nfa_bp.accept_state_set = {}
    /\ Len(last.items) = 2
    /\ last.items[1].conn # last.items[2].conn

\* ------------------------------------------------------------------ claims on the DFA of tests::trigger_fallback
\* the three labels occur in seq as consecutive items
HasThreeLabelsInARow(seq) ==
    \E i \in 1 .. (Len(seq) - 2) : \A j \in 0 .. 2 : seq[i + j] = FallbackLabels[j + 1]

\* C17: in the DFA with plain edges 0->1, 1->2, 2->3, fallback edges from 0, 1
\* and 2 to 0 and a self-fallback on accept state 3, for every input over the
\* three labels and an unknown symbol: test_trigger is true at every step, the
\* walker is in state 3 only if the three labels occurred as consecutive
\* inputs, any other symbol in state 0, 1 or 2 sends the walker to state 0,
\* and once in state 3 the walker stays in state 3 and accepted.
C17_FallbackWalk ==
    /\ pc # "panicked"
    /\ pc = "walk"
          => /\ \A trans \in FallbackSymbols : DFAuto_test_trigger(dfa_bp, dfa_auto, trans)
             /\ dfa_auto.current_state \in 0 .. 3
             /\ dfa_auto.current_state = 3 => HasThreeLabelsInARow(input)
             /\ DFAuto_is_accepted(dfa_bp, dfa_auto) <=> dfa_auto.current_state = 3
    /\ last.op = "step"
          => LET from == last.before.current_state
             IN  /\ last.ret
                 /\ from = 3 => dfa_auto.current_state = 3
                 /\ (from < 3 /\ last.trans = FallbackLabels[from + 1])
                       => dfa_auto.current_state = from + 1
                 /\ (from < 3 /\ last.trans # FallbackLabels[from + 1])
                       => dfa_auto.current_state = 0

\* after an unknown symbol the three labels brought the walker to state 3, and
\* a further unknown symbol left it there
C17_Witness ==
    /\ pc = "walk" /\ last.op = "step"
    /\ input = <<"error", "0 -> 1", "1 -> 2", "2 -> 3", "error">>
    /\ last.before.current_state = 3
    /\ dfa_auto.current_state = 3
    /\ DFAuto_is_accepted(dfa_bp, dfa_auto)

ResolvedEntries(loc) ==
    Cardinality({ i \in 1 .. Len(loc.unresolved_state_set_list) :
                     loc.unresolved_state_set_list[i] \in loc.resolved_state_set_set })

\* C19: determinize terminates on every finite NFA blueprint, including NFAs
\* with cycles of plain, void or wildcard edges and state sets that have an
\* edge to themselves: the work list eventually becomes empty.  Stated with
\* the measure the finite powerset bound gives: every iteration of the loop
\* completes, the resolved state sets are subsets of the NFA's states, and an
\* iteration either resolves a state set that was not resolved before, or
\* resolves nothing new and leaves fewer resolved entries in the work list;
\* the pair (number of unresolved subsets, number of resolved entries of the
\* work list) cannot decrease for ever, and with an empty work list the loop
\* is left.
C19_DeterminizeTerminates ==
    [][ /\ DetStep
           => /\ pc' = "det"
              /\ det'.resolved_state_set_set \subseteq SUBSET States
              /\ det.resolved_state_set_set \subseteq det'.resolved_state_set_set
              /\ \/ det'.resolved_state_set_set # det.resolved_state_set_set
                 \/ ResolvedEntries(det') < ResolvedEntries(det)
        /\ (pc = "det" /\ det.unresolved_state_set_list = <<>> /\ pc' # "det")
           => pc' = "dfa_blueprint"
      ]_vars

\* determinize returned a DFA in which a state set has a plain edge and a
\* fallback edge to itself
C19_Witness ==
    /\ pc = "dfa_blueprint" /\ last.op = "det_finish"
    /\ \E S \in DOMAIN dfa_bp.graph :
          /\ \E l \in DOMAIN dfa_bp.graph[S] : dfa_bp.graph[S][l] = S
          /\ S \in DOMAIN dfa_bp.fallback_graph /\ dfa_bp.fallback_graph[S] = S

\* C20: during determinize no state set is reprocessed: each distinct state
\* set is taken from the work list and resolved at most once.
C20_NoStateSetResolvedTwice ==
    (pc = "det" /\ last.op = "det_step") => ~last.again

\* ------------------------------------------------------------------ claims on the DFA that determinize returns
\* determinize has returned
Determinized == pc = "dfa_blueprint" /\ last.op = "det_finish"

\* the state sets of a DFA blueprint: its start state and the destinations of
\* its edges
DFAStateSets(bp) ==
    {bp.start_state}
      \cup UNION { { bp.graph[S][l] : l \in DOMAIN bp.graph[S] } : S \in DOMAIN bp.graph }
      \cup { bp.fallback_graph[S] : S \in DOMAIN bp.fallback_graph }

\* the destinations of the plain edges on l, and of the wildcard edges, that
\* leave a member of S
PlainTargets(bp, S, l) == { t \in States : \E s \in S : PlainEdge(bp, s, l, t) }
WildcardTargets(bp, S) == { t \in States : \E s \in S : WildcardEdge(bp, s, t) }

\* C21: in the DFA returned by determinize, for every state set S that is the
\* start state or a destination of an edge, and every label: the plain edge
\* (S, label) exists iff some member of S has a plain edge on label, and its
\* destination is the epsilon closure of the union of those plain
\* destinations; the fallback edge of S exists iff some member of S has a
\* wildcard edge, and its destination is the epsilon closure of the union of
\* those wildcard destinations; the start state is the epsilon closure of
\* {nfa.start} and every DFA state is a nonempty epsilon-closed set.
C21_SubsetConstruction ==
    Determinized
       => /\ dfa_bp.start_state = EpsClosure(nfa_bp, {nfa_bp.start_state})
          /\ \A S \in DFAStateSets(dfa_bp) :
                /\ S # {} /\ S \subseteq States /\ VoidClosed(nfa_bp, S)
                /\ \A l \in Labels :
                      /\ HasPlain(dfa_bp, S, l) <=> PlainTargets(nfa_bp, S, l) # {}
                      /\ HasPlain(dfa_bp, S, l)
                            => dfa_bp.graph[S][l]
                                  = EpsClosure(nfa_bp, PlainTargets(nfa_bp, S, l))
                /\ S \in DOMAIN dfa_bp.graph => DOMAIN dfa_bp.graph[S] \subseteq Labels
                /\ HasFallback(dfa_bp, S) <=> WildcardTargets(nfa_bp, S) # {}
                /\ HasFallback(dfa_bp, S)
                      => dfa_bp.fallback_graph[S]
                            = EpsClosure(nfa_bp, WildcardTargets(nfa_bp, S))

\* determinize returned a DFA whose start state has a plain edge to a state
\* set that a void edge enlarged, and a fallback edge
C21_Witness ==
    /\ Determinized
    /\ \E l \in Labels :
          /\ HasPlain(dfa_bp, dfa_bp.start_state, l)
          /\ PlainTargets(nfa_bp, dfa_bp.start_state, l)
                # dfa_bp.graph[dfa_bp.start_state][l]
    /\ HasFallback(dfa_bp, dfa_bp.start_state)

\* C22: in the DFA returned by determinize, a state set S (the start state or
\* any edge destination) is in the accept set if and only if S contains at
\* least one NFA accept state; no reachable state set is left unmarked and no
\* set disjoint from the NFA accept set is marked.
C22_AcceptIffSomeMemberAccepts ==
    Determinized
       => /\ \A S \in DFAStateSets(dfa_bp) :
                S \in dfa_bp.accept_state_set
                   <=> S \cap nfa_bp.accept_state_set # {}
          /\ \A S \in dfa_bp.accept_state_set :
                S \cap nfa_bp.accept_state_set # {}

\* the returned DFA has an accepting state set with a member that is not an
\* NFA accept state, and a state set that does not accept
C22_Witness ==
    /\ Determinized
    /\ \E S \in dfa_bp.accept_state_set : ~(S \subseteq nfa_bp.accept_state_set)
    /\ \E S \in DFAStateSets(dfa_bp) : S \notin dfa_bp.accept_state_set

\* C23: determinize is deterministic in its result: for a given NFA blueprint,
\* every order of iterating the members of a state set, the labels of the
\* accumulator and the work list yields the same DFA blueprint (same start
\* state, accept set, plain table and fallback table).  Whatever orders the
\* run took, it returns the blueprint of the run that takes the order of iter
\* in every iteration.
C23_ResultIndependentOfOrder ==
    Determinized => Ok(dfa_bp) = determinize(nfa_bp)

\* determinize returned after resolving a state set whose accumulator held two
\* labels with two different destinations, neither of them the state set
\* itself: the two orders of the labels gave two different work lists
C23_Witness ==
    /\ Determinized
    /\ \E S \in DOMAIN dfa_bp.graph :
          \E l1 \in DOMAIN dfa_bp.graph[S], l2 \in DOMAIN dfa_bp.graph[S] :
             /\ l1 # l2
             /\ dfa_bp.graph[S][l1] # dfa_bp.graph[S][l2]
             /\ dfa_bp.graph[S][l1] # S /\ dfa_bp.graph[S][l2] # S

\* ------------------------------------------------------------------ claims on the state identifiers of compile
\* the number of nodes of kind op in the AST r
RECURSIVE Nodes(_, _)
Nodes(r, op) ==
    (IF r.op = op THEN 1 ELSE 0)
      + CASE r.op = "ZeroOrMore" -> Nodes(r.inner, op)
          [] r.op \in {"Concat", "Either"} -> Nodes(r.first, op) + Nodes(r.second, op)
          [] OTHER -> 0

\* the identifiers compiling r allocates
Allocated(r) == 2 * Nodes(r, "ZeroOrMore") + Nodes(r, "Concat") + 4 * Nodes(r, "Either")

\* the (from, to) pairs of the edges of a builder or blueprint, of any kind
EdgePairs(b) ==
    UNION { { <<f, t>> : t \in UNION { b.graph[f][l] : l \in DOMAIN b.graph[f] } }
            : f \in DOMAIN b.graph }
      \cup UNION { { <<f, t>> : t \in b.void_graph[f] } : f \in DOMAIN b.void_graph }
      \cup UNION { { <<f, t>> : t \in b.wildcard_graph[f] } : f \in DOMAIN b.wildcard_graph }

\* C24: during compile the state counter only increases and every fresh state
\* identifier is handed out once: fresh identifiers are pairwise distinct and
\* differ from the start 0 and the accept 1, no construct adds an edge into
\* its left boundary or out of its right boundary, state 1 is the only accept
\* state, and the number of identifiers allocated is 2 + 2*(ZeroOrMore nodes)
\* + 1*(Concat nodes) + 4*(Either nodes), linear in the AST size.
C24_FreshStateIdentifiers ==
    (pc = "nfa_blueprint" /\ last.op = "compile")
       => /\ nfa_bp.start_state = 0
          /\ nfa_bp.accept_state_set = {1}
          /\ NFAMentioned(nfa_bp) = 0 .. (2 + Allocated(re) - 1)
          /\ \A inv \in Invocations(re, 2, 0, 1) :
                \A r \in {recursive_compile(inv.self, NFAutoBuilder_start(inv.left),
                                             inv.counter, inv.left, inv.right)} :
                   /\ inv.left # inv.right
                   /\ inv.left < inv.counter /\ inv.right < inv.counter
                   /\ r.counter = inv.counter + Allocated(inv.self)
                   /\ NFAMentioned(r.builder)
                         = {inv.left, inv.right} \cup (inv.counter .. (r.counter - 1))
                   /\ \A e \in EdgePairs(r.builder) :
                         e[2] # inv.left /\ e[1] # inv.right
                   /\ EdgePairs(r.builder) \subseteq EdgePairs(nfa_bp)

\* a pattern with a Concat whose first part allocates identifiers after the
\* middle state, and a ZeroOrMore or Either, was compiled
C24_Witness ==
    /\ pc = "nfa_blueprint" /\ last.op = "compile"
    /\ re.op = "Concat" /\ re.first.op \in {"ZeroOrMore", "Either"}
    /\ Allocated(re) >= 3
    /\ Cardinality(NFAMentioned(nfa_bp)) = 2 + Allocated(re)

\* ------------------------------------------------------------------ claims on the walkers of an NFA and of its DFA
NoWildcard(bp) == DOMAIN bp.wildcard_graph = {}

\* C25: for every NFA blueprint without wildcard edges, the NFA walker and the
\* walker of determinize(N) stay in lockstep: after any symbol sequence on
\* which the DFA walker's test_trigger never failed, the DFA walker's current
\* state, read as a set, equals the NFA walker's current state set; and the
\* DFA walker's test_trigger fails on a symbol exactly when the NFA walker's
\* state set becomes empty on that symbol.
C25_WalkersInLockstep ==
    NoWildcard(nfa_bp)
       => /\ pc # "panicked"
          /\ pc = "lock" => dfa_auto.current_state = nfa_auto.current_state_set
          /\ (pc \in {"lock", "blocked"} /\ last.op = "lockstep")
                => /\ ~last.ret <=> nfa_auto.current_state_set = {}
                   /\ ~last.ret <=> pc = "blocked"

\* on an NFA without wildcard edges the two walkers moved together to a state
\* set that a void edge enlarged, and the next symbol was refused by the DFA
\* walker and emptied the state set of the NFA walker
C25_Witness ==
    /\ pc = "blocked" /\ NoWildcard(nfa_bp)
    /\ dfa_auto.current_state # dfa_bp.start_state
    /\ Cardinality(dfa_auto.current_state) >= 2
    /\ nfa_auto.current_state_set = {}

\* ------------------------------------------------------------------ claims on the DFA of lib.rs
\* C26: in the fallback-free DFA of src/src/lib.rs, test_trigger(label) returns
\* a boolean in every reachable walker state: when the current state has no
\* outgoing transition at all (for example an accept state reached by
\* trans(0, x, 1) with no edge from 1) it returns false instead of failing.
C26_TestTriggerReturnsBoolean ==
    last.op = "test_trigger"
       => /\ last.ret.panic = "none"
          /\ last.ret.val \in BOOLEAN
          /\ dfa_auto.current_state \notin DOMAIN dfa_bp.graph => last.ret.val = FALSE

====
